---- MODULE Spec2Model ----
(***************************************************************************)
(* A model of the argument parsing engine of src/argparse.py (the          *)
(* container / conflict graph, the token classifier, the nargs pattern     *)
(* matcher, the consume loop and the nesting-group cross tests) and of the *)
(* inherit-aware conflict handler of src/sample3.py.                       *)
(*                                                                         *)
(* Strings of the program are sequences of one-character strings, so that  *)
(* prefix tests, slicing and splitting are computed, not assumed.          *)
(***************************************************************************)
EXTENDS Integers, Sequences, FiniteSets, TLC

(***************************************************************************)
(* Bounds of the model.                                                    *)
(***************************************************************************)
\* longest command line (number of tokens) that is parsed
MaxArgs == 5
\* number of Action objects the configuration operations may create
MaxActions == 3
\* the parsers a configuration run creates
MaxParsers == 3

(***************************************************************************)
(* Program constants.                                                      *)
(***************************************************************************)
\* an open upper bound of a regular expression repetition ('*', '{m,}')
Unbounded == 99

\* SUPPRESS as a destination name
SUPPRESS_DEST == <<"=", "=", "S", "U", "P", "P", "R", "E", "S", "S", "=", "=">>
UNRECOGNIZED_ARGS_ATTR ==
    <<"_", "u", "n", "r", "e", "c", "o", "g", "n", "i", "z", "e", "d", "_", "a", "r", "g", "s">>
prefix_chars == {"-"}

(***************************************************************************)
(* Generic helpers on sequences.                                           *)
(***************************************************************************)
Range(s) == {s[i] : i \in 1..Len(s)}

RECURSIVE SumSeq(_)
SumSeq(s) == IF s = <<>> THEN 0 ELSE Head(s) + SumSeq(Tail(s))

RECURSIVE Concat(_)
Concat(ss) == IF ss = <<>> THEN <<>> ELSE Head(ss) \o Concat(Tail(ss))

Min(a, b) == IF a < b THEN a ELSE b

\* In(x), with x bound to its value: a local variable of the source
With(x, In(_)) == CHOOSE r \in {In(v) : v \in {x}} : TRUE

\* s[from:] of Python, with from counted from 0
DropFirst(s, n) == IF n >= Len(s) THEN <<>> ELSE SubSeq(s, n + 1, Len(s))
\* s[:n] of Python
TakeFirst(s, n) == IF n >= Len(s) THEN s ELSE SubSeq(s, 1, n)
\* s[a:b] of Python (0-based, half open)
Slice(s, a, b) == IF a >= Min(b, Len(s)) THEN <<>> ELSE SubSeq(s, a + 1, Min(b, Len(s)))

\* str.startswith
startswith(s, p) == Len(p) <= Len(s) /\ SubSeq(s, 1, Len(p)) = p

\* index of the first occurrence of x in s, 0 when absent
RECURSIVE IndexFrom(_, _, _)
IndexFrom(s, x, i) ==
    IF i > Len(s) THEN 0 ELSE IF s[i] = x THEN i ELSE IndexFrom(s, x, i + 1)
IndexOf(s, x) == IndexFrom(s, x, 1)

\* list.remove(x): drops the first occurrence only
ListRemove(s, x) ==
    LET i == IndexOf(s, x)
    IN  IF i = 0 THEN s ELSE SubSeq(s, 1, i - 1) \o SubSeq(s, i + 1, Len(s))

SelectIn(s, S) == SelectSeq(s, LAMBDA x : x \in S)

Count(s, x) == Cardinality({i \in 1..Len(s) : s[i] = x})

(***************************************************************************)
(* nargs values.  NNone is the default (one value, stored bare).           *)
(***************************************************************************)
Nargs(k, m, n) == [k |-> k, m |-> m, n |-> n]
NNone == Nargs("None", 1, 1)
OPTIONAL == Nargs("?", 0, 1)
ZERO_OR_MORE == Nargs("*", 0, Unbounded)
ONE_OR_MORE == Nargs("+", 1, Unbounded)
PARSER == Nargs("A...", 1, Unbounded)
REMAINDER == Nargs("...", 0, Unbounded)
\* an integer nargs
NInt(n) == Nargs("int", n, n)
\* a '{m,n}' nargs string; an omitted m is 0 and an omitted n is Unbounded
NRange(m, n) == Nargs("mn", m, n)

\* _is_mnrep: only '{m,n}' strings (and tuples turned into them) are ranges
is_mnrep(nargs) == nargs.k = "mn"

(***************************************************************************)
(* Regular expressions.  Every nargs pattern is a concatenation of atoms   *)
(* "character class, repeated min..max times, greedy"; a pattern is the    *)
(* sequence of its atoms.  re_match is re.match of Python on such a        *)
(* pattern: anchored at the start, greedy, backtracking, the first         *)
(* successful assignment in the engine's search order.                     *)
(***************************************************************************)
Atom(cls, lo, hi) == [cls |-> cls, lo |-> lo, hi |-> hi]
NoMatch == <<-1>>

\* number of consecutive symbols of class cls in s from position pos (1-based)
RECURSIVE RunLen(_, _, _)
RunLen(s, pos, cls) ==
    IF pos > Len(s) \/ s[pos] \notin cls THEN 0 ELSE 1 + RunLen(s, pos + 1, cls)

RECURSIVE MatchAtoms(_, _, _, _)
RECURSIVE TryCount(_, _, _, _, _)
\* the counts taken by atoms i.. of the pattern on s from pos, or NoMatch
MatchAtoms(atoms, i, s, pos) ==
    IF i > Len(atoms) THEN <<>>
    ELSE With(Min(atoms[i].hi, RunLen(s, pos, atoms[i].cls)),
              LAMBDA longest : TryCount(atoms, i, s, pos, longest))

\* a greedy atom tries the longest run first and gives back one symbol at a time
TryCount(atoms, i, s, pos, k) ==
    IF k < atoms[i].lo THEN NoMatch
    ELSE With(MatchAtoms(atoms, i + 1, s, pos + k),
              LAMBDA rest : IF rest # NoMatch THEN <<k>> \o rest
                            ELSE TryCount(atoms, i, s, pos, k - 1))

re_match(atoms, s) == With(<<atoms, s>>, LAMBDA as : MatchAtoms(as[1], 1, as[2], 1))

(***************************************************************************)
(* Action._get_nargs_pattern                                               *)
(***************************************************************************)
Dashes == Atom({"-"}, 0, Unbounded)
OneA == Atom({"A"}, 1, 1)

RECURSIVE IntPattern(_)
\* '-*'.join('A' * n) followed by the closing '-*'
IntPattern(n) == IF n = 0 THEN <<Dashes>> ELSE <<OneA, Dashes>> \o IntPattern(n - 1)

\* _get_nargs_pattern with an integer nargs read as "that many or more"
NargsPatternBase_int_or_more(nargs) ==
    CASE nargs.k = "None" -> <<Dashes, OneA, Dashes>>
      [] nargs.k = "?"    -> <<Dashes, Atom({"A"}, 0, 1), Dashes>>
      [] nargs.k = "*"    -> <<Dashes, Atom({"A", "-"}, 0, Unbounded)>>
      [] nargs.k = "+"    -> <<Dashes, OneA, Atom({"A", "-"}, 0, Unbounded)>>
      [] nargs.k = "..."  -> <<Atom({"-", "A", "O"}, 0, Unbounded)>>
      [] nargs.k = "A..." -> <<Dashes, OneA, Atom({"-", "A", "O"}, 0, Unbounded)>>
      [] nargs.k = "mn"   -> <<Atom({"-", "A"}, nargs.m, nargs.n)>>
      [] nargs.k = "int"  -> <<Atom({"-", "A"}, nargs.n, Unbounded)>>

\* _get_nargs_pattern with the upper limit of a '{m,n}' range left out
NargsPatternBase_no_upper_limit(nargs) ==
    CASE nargs.k = "None" -> <<Dashes, OneA, Dashes>>
      [] nargs.k = "?"    -> <<Dashes, Atom({"A"}, 0, 1), Dashes>>
      [] nargs.k = "*"    -> <<Dashes, Atom({"A", "-"}, 0, Unbounded)>>
      [] nargs.k = "+"    -> <<Dashes, OneA, Atom({"A", "-"}, 0, Unbounded)>>
      [] nargs.k = "..."  -> <<Atom({"-", "A", "O"}, 0, Unbounded)>>
      [] nargs.k = "A..." -> <<Dashes, OneA, Atom({"-", "A", "O"}, 0, Unbounded)>>
      [] nargs.k = "mn"   -> <<Atom({"-", "A"}, nargs.m, Unbounded)>>
      [] nargs.k = "int"  ->
            IF nargs.n = 0 THEN <<Dashes, Dashes>> ELSE <<Dashes>> \o IntPattern(nargs.n)

\* the pattern of a positional: '--' (the symbol '-') is allowed
NargsPatternBase(nargs) ==
    CASE nargs.k = "None" -> <<Dashes, OneA, Dashes>>
      [] nargs.k = "?"    -> <<Dashes, Atom({"A"}, 0, 1), Dashes>>
      [] nargs.k = "*"    -> <<Dashes, Atom({"A", "-"}, 0, Unbounded)>>
      [] nargs.k = "+"    -> <<Dashes, OneA, Atom({"A", "-"}, 0, Unbounded)>>
      [] nargs.k = "..."  -> <<Atom({"-", "A", "O"}, 0, Unbounded)>>
      [] nargs.k = "A..." -> <<Dashes, OneA, Atom({"-", "A", "O"}, 0, Unbounded)>>
      [] nargs.k = "mn"   -> <<Atom({"-", "A"}, nargs.m, nargs.n)>>
      [] nargs.k = "int"  ->
            IF nargs.n = 0 THEN <<Dashes, Dashes>> ELSE <<Dashes>> \o IntPattern(nargs.n)

\* nargs_pattern.replace('-*', '').replace('-', '') for an optional
StripDashes(atoms) ==
    LET kept == SelectSeq(atoms, LAMBDA a : a # Dashes)
    IN  [i \in 1..Len(kept) |-> [kept[i] EXCEPT !.cls = @ \ {"-"}]]

get_nargs_pattern(action) ==
    IF action.option_strings # <<>> THEN StripDashes(NargsPatternBase(action.nargs))
    ELSE NargsPatternBase(action.nargs)

\* Action._is_nargs_variable
action_is_nargs_variable(action) ==
    \/ action.nargs.k \in {"?", "*", "+", "...", "A..."}
    \/ is_mnrep(action.nargs)

(***************************************************************************)
(* Values that may be absent (None of Python) are sequences of length 0 or *)
(* 1: <<>> is None and <<v>> is the value v.                               *)
(***************************************************************************)
None == <<>>
Some(v) == <<v>>

(***************************************************************************)
(* The configuration: Action objects, containers and groups.               *)
(*   acts[a]    : the Action with identity a                               *)
(*   parsers[p] : the ArgumentParser p, with the lists its two default     *)
(*                argument groups share with it                            *)
(*   groups[g]  : the _NestingGroup g                                      *)
(*   sample3    : whether src/sample3.py was imported: it replaces          *)
(*                _handle_conflict_resolve and _add_container_actions and   *)
(*                adds the "parent" conflict policy                         *)
(*   last       : the last configuration call, [op, self, conflicts, err]:  *)
(*                conflicts are the (option string, action) pairs handed to *)
(*                the conflict handler, err is the exception the call       *)
(*                raised, None when it returned                             *)
(***************************************************************************)
VARIABLES acts, parsers, groups, sample3, last

\* an ordered dict as a sequence of <<key, value>> pairs
DictHas(d, k) == \E i \in 1..Len(d) : d[i][1] = k
DictGet(d, k) == d[CHOOSE i \in 1..Len(d) : d[i][1] = k][2]
DictKeys(d) == [i \in 1..Len(d) |-> d[i][1]]
\* d[k] = v : an existing key keeps its place, a new key goes last
DictSet(d, k, v) ==
    IF DictHas(d, k) THEN [i \in 1..Len(d) |-> IF d[i][1] = k THEN <<k, v>> ELSE d[i]]
    ELSE Append(d, <<k, v>>)
\* d.pop(k, None)
DictPop(d, k) == SelectSeq(d, LAMBDA e : e[1] # k)

(***************************************************************************)
(* ArgumentParser._get_option_tuples                                       *)
(***************************************************************************)
\* str.split('=', 1): <<before, after>>
SplitEq(s) ==
    LET i == IndexOf(s, "=")
    IN  <<SubSeq(s, 1, i - 1), SubSeq(s, i + 1, Len(s))>>

OptTuple(action, option_string, explicit_arg) ==
    [action |-> action, option_string |-> option_string, explicit_arg |-> explicit_arg]

get_option_tuples(p, option_string) ==
    LET osa == parsers[p].option_string_actions
        long == option_string[1] \in prefix_chars /\ option_string[2] \in prefix_chars
        option_prefix ==
            IF long /\ "=" \in Range(option_string) THEN SplitEq(option_string)[1]
            ELSE option_string
        explicit_arg ==
            IF long /\ "=" \in Range(option_string) THEN Some(SplitEq(option_string)[2])
            ELSE None
        short_option_prefix == TakeFirst(option_string, 2)
        short_explicit_arg == DropFirst(option_string, 2)
        \* the tuples one registered string contributes, in dict order
        One(e) ==
            IF long
            THEN IF startswith(e[1], option_prefix)
                 THEN <<OptTuple(e[2], e[1], explicit_arg)>> ELSE <<>>
            ELSE IF e[1] = short_option_prefix
                 THEN <<OptTuple(e[2], e[1], Some(short_explicit_arg))>>
                 ELSE IF startswith(e[1], option_prefix)
                      THEN <<OptTuple(e[2], e[1], None)>> ELSE <<>>
    IN  Concat([i \in 1..Len(osa) |-> One(osa[i])])

(***************************************************************************)
(* ArgumentParser._get_nested_action: the option string is searched,       *)
(* exactly, in the parsers of every sub-command, recursively.              *)
(***************************************************************************)
RECURSIVE get_nested_action(_, _)
get_nested_action(p, arg_string) ==
    LET maps == Concat([i \in 1..Len(parsers[p].actions) |->
                          acts[parsers[p].actions[i]].name_parser_map])
    IN  \E i \in 1..Len(maps) :
            \/ DictHas(parsers[maps[i][2]].option_string_actions, arg_string)
            \/ get_nested_action(maps[i][2], arg_string)

(***************************************************************************)
(* ArgumentParser._parse_optional.  The result is one of                   *)
(*   [t |-> "A"]                      None: the string is an argument      *)
(*   [t |-> "O", tuple |-> ...]       an option tuple (action 0 = None)    *)
(*   [t |-> "ambiguous", matches]     self.error(ambiguous option)         *)
(***************************************************************************)
Digits == {"0", "1", "2", "3", "4", "5", "6", "7", "8", "9"}

\* complex(arg_string) succeeds; the tokens of the model are built from
\* digits, '-', '=', ' ' and letters that spell no float or complex literal
IsComplex(s) ==
    LET body == IF s # <<>> /\ s[1] = "-" THEN Tail(s) ELSE s
    IN  body # <<>> /\ Range(body) \subseteq Digits

\* _parse_optional taking the first of several matching option strings
parse_optional_first_match(p, arg_string) ==
    LET osa == parsers[p].option_string_actions
        option_tuples == get_option_tuples(p, arg_string)
    IN  IF arg_string = <<>> THEN [t |-> "A"]
        ELSE IF arg_string[1] \notin prefix_chars THEN [t |-> "A"]
        ELSE IF DictHas(osa, arg_string)
             THEN [t |-> "O", tuple |-> OptTuple(DictGet(osa, arg_string), arg_string, None)]
        ELSE IF Len(arg_string) = 1 THEN [t |-> "A"]
        ELSE IF Len(option_tuples) >= 1 THEN [t |-> "O", tuple |-> option_tuples[1]]
        ELSE [t |-> "O", tuple |-> OptTuple(0, arg_string, None)]

parse_optional(p, arg_string) ==
    LET osa == parsers[p].option_string_actions
        option_tuples == get_option_tuples(p, arg_string)
    IN  IF arg_string = <<>> THEN [t |-> "A"]
        ELSE IF arg_string[1] \notin prefix_chars THEN [t |-> "A"]
        ELSE IF DictHas(osa, arg_string)
             THEN [t |-> "O", tuple |-> OptTuple(DictGet(osa, arg_string), arg_string, None)]
        ELSE IF get_nested_action(p, arg_string)
             THEN [t |-> "O", tuple |-> OptTuple(0, arg_string, None)]
        ELSE IF Len(arg_string) = 1 THEN [t |-> "A"]
        ELSE IF "=" \in Range(arg_string) /\ DictHas(osa, SplitEq(arg_string)[1])
             THEN [t |-> "O",
                   tuple |-> OptTuple(DictGet(osa, SplitEq(arg_string)[1]),
                                      SplitEq(arg_string)[1],
                                      Some(SplitEq(arg_string)[2]))]
        ELSE IF Len(option_tuples) > 1
             THEN [t |-> "ambiguous",
                   matches |-> [i \in 1..Len(option_tuples) |-> option_tuples[i].option_string]]
        ELSE IF Len(option_tuples) = 1 THEN [t |-> "O", tuple |-> option_tuples[1]]
        ELSE IF ~parsers[p].has_negative_number_optionals /\ IsComplex(arg_string)
             THEN [t |-> "A"]
        ELSE IF " " \in Range(arg_string) THEN [t |-> "A"]
        ELSE [t |-> "O", tuple |-> OptTuple(0, arg_string, None)]

(***************************************************************************)
(* Errors.  self.error(...) and a raised ArgumentError both end the parse  *)
(* call; an error is [kind, action, detail] with action 0 when the message *)
(* names no action, and detail the strings the message lists.              *)
(***************************************************************************)
Err(kind, action, detail) == [kind |-> kind, action |-> action, detail |-> detail]

(***************************************************************************)
(* ArgumentParser._match_argument: the number of symbols the action's      *)
(* pattern matches at the start of arg_strings_pattern, -1 when it does    *)
(* not match (the caller raises "expected ... argument(s)").               *)
(***************************************************************************)
match_argument(action, arg_strings_pattern) ==
    LET m == re_match(get_nargs_pattern(action), arg_strings_pattern)
    IN  IF m = NoMatch THEN -1 ELSE SumSeq(m)

(***************************************************************************)
(* ArgumentParser._match_arguments_partial                                 *)
(***************************************************************************)
\* len(string) for string in match.groups(): one group per action
RECURSIVE GroupLens(_, _)
GroupLens(actions, counts) ==
    IF actions = <<>> THEN <<>>
    ELSE LET n == Len(get_nargs_pattern(Head(actions)))
         IN  <<SumSeq(TakeFirst(counts, n))>> \o GroupLens(Tail(actions), DropFirst(counts, n))

RECURSIVE MatchSlice(_, _, _)
\* for i in range(len(actions), 0, -1): the first slice actions[:i] that matches
MatchSlice(actions, arg_strings_pattern, i) ==
    IF i = 0 THEN <<>>
    ELSE LET actions_slice == TakeFirst(actions, i)
             pattern == Concat([j \in 1..i |-> get_nargs_pattern(actions_slice[j])])
         IN  With(re_match(pattern, arg_strings_pattern),
                  LAMBDA m : IF m # NoMatch THEN GroupLens(actions_slice, m)
                             ELSE MatchSlice(actions, arg_strings_pattern, i - 1))

\* _match_arguments_partial without the loop: only the whole list is tried
match_arguments_partial_whole_list(actions, arg_strings_pattern) ==
    LET pattern == Concat([j \in 1..Len(actions) |-> get_nargs_pattern(actions[j])])
        m == re_match(pattern, arg_strings_pattern)
    IN  IF m # NoMatch THEN GroupLens(actions, m) ELSE <<>>

match_arguments_partial(actions, arg_strings_pattern) ==
    With(<<actions, arg_strings_pattern>>,
         LAMBDA given : MatchSlice(given[1], given[2], Len(given[1])))

(***************************************************************************)
(* Values of the result mapping, tagged by their Python type.              *)
(***************************************************************************)
VNone == <<"none">>
VSuppress == <<"suppress">>
VStr(string) == <<"str", string>>
VInt(n) == <<"int", n>>
VBool(b) == <<"bool", b>>
VList(values) == <<"list", values>>
\* _DelayedValue(self._get_value, action, default)
VDelayed(a, string) == <<"delayed", a, string>>

IsStr(v) == v[1] = "str"

(***************************************************************************)
(* ArgumentParser._get_value: the registered type function is applied to   *)
(* one string.  type None is the identity; int fails on a string that is   *)
(* no integer literal.  The result is <<"ok", value>> or <<"err", error>>. *)
(***************************************************************************)
DigitValue(c) == CHOOSE n \in 0..9 : <<"0", "1", "2", "3", "4", "5", "6", "7", "8", "9">>[n + 1] = c

RECURSIVE DigitsToInt(_, _)
DigitsToInt(s, acc) ==
    IF s = <<>> THEN acc ELSE DigitsToInt(Tail(s), 10 * acc + DigitValue(Head(s)))

\* int(string) over the characters of the model: an optional sign and digits
IsIntLiteral(s) == IsComplex(s)
int(s) == IF s[1] = "-" THEN 0 - DigitsToInt(Tail(s), 0) ELSE DigitsToInt(s, 0)

get_value(a, arg_string) ==
    IF acts[a].type = "int"
    THEN IF IsIntLiteral(arg_string) THEN <<"ok", VInt(int(arg_string))>>
         ELSE <<"err", Err("invalid value", a, <<arg_string>>)>>
    ELSE <<"ok", VStr(arg_string)>>

(***************************************************************************)
(* Action._check_values: every converted value that is not one of the      *)
(* choices is collected; one error lists them all.  The choices of a       *)
(* sub-command action are the names of its parser map.                     *)
(***************************************************************************)
ActionChoices(a) ==
    IF acts[a].kind = "parsers"
    THEN Some({VStr(acts[a].name_parser_map[i][1]) : i \in 1..Len(acts[a].name_parser_map)})
    ELSE acts[a].choices

\* _check_values as it was before the problems were joined: "for now, just
\* display 1st"
check_values_first_problem(a, value) ==
    IF ActionChoices(a) = None THEN None
    ELSE LET values == IF value[1] = "list" THEN value[2] ELSE <<value>>
             problems == SelectSeq(values, LAMBDA v : v \notin ActionChoices(a)[1])
         IN  IF problems # <<>> THEN Some(Err("invalid choice", a, <<problems[1]>>)) ELSE None

\* None when the values pass, else Some(error)
check_values(a, value) ==
    IF ActionChoices(a) = None THEN None
    ELSE LET values == IF value[1] = "list" THEN value[2] ELSE <<value>>
             problems == SelectSeq(values, LAMBDA v : v \notin ActionChoices(a)[1])
         IN  IF problems # <<>> THEN Some(Err("invalid choice", a, problems)) ELSE None

(***************************************************************************)
(* ArgumentParser._get_values.  The result is                              *)
(*   [err |-> None or Some(error), value, using_default]                   *)
(***************************************************************************)
Values(err, value, using_default) ==
    [err |-> err, value |-> value, using_default |-> using_default]

\* [self._get_value(action, v) for v in arg_strings]: the first failure raises
ConvertAll(a, arg_strings) ==
    LET conv == [i \in 1..Len(arg_strings) |-> get_value(a, arg_strings[i])]
        bad == {i \in 1..Len(conv) : conv[i][1] = "err"}
    IN  IF bad # {} THEN <<"err", conv[CHOOSE i \in bad : \A j \in bad : i <= j][2]>>
        ELSE <<"ok", VList([i \in 1..Len(conv) |-> conv[i][2]])>>

\* convert, then check the choices
Checked(a, conv, using_default, check) ==
    IF conv[1] = "err" THEN Values(Some(conv[2]), VNone, using_default)
    ELSE Values(IF check THEN check_values(a, conv[2]) ELSE None, conv[2], using_default)

get_values(a, arg_strings) ==
    LET action == acts[a]
    IN  IF arg_strings = <<>> /\ action.nargs = OPTIONAL
        THEN LET value == IF action.option_strings # <<>> THEN action.const ELSE action.default
                 using_default == action.option_strings = <<>>
             IN  IF IsStr(value) THEN Checked(a, get_value(a, value[2]), using_default, TRUE)
                 ELSE Values(None, value, using_default)
        ELSE IF arg_strings = <<>> /\ action.nargs = ZERO_OR_MORE /\ action.option_strings = <<>>
        THEN LET value == IF action.default # VNone THEN action.default ELSE VList(<<>>)
             IN  Values(IF IsStr(value) THEN check_values(a, value) ELSE None, value, TRUE)
        ELSE IF Len(arg_strings) = 1 /\ action.nargs \in {NNone, OPTIONAL}
        THEN Checked(a, get_value(a, arg_strings[1]), FALSE, TRUE)
        ELSE IF action.nargs = REMAINDER
        THEN Checked(a, ConvertAll(a, arg_strings), FALSE, FALSE)
        ELSE IF action.nargs = PARSER
        THEN LET conv == ConvertAll(a, arg_strings)
             IN  IF conv[1] = "err" THEN Values(Some(conv[2]), VNone, FALSE)
                 ELSE Values(check_values(a, conv[2][2][1]), conv[2], FALSE)
        ELSE Checked(a, ConvertAll(a, arg_strings), FALSE, TRUE)

(***************************************************************************)
(* One parse call.  A frame holds the local variables of one               *)
(* parse_known_args / _parse_known_args activation; the stack has more     *)
(* than one frame while a sub-command parser runs inside take_action.      *)
(***************************************************************************)
NoErr == Err("", 0, <<>>)

\* what a consume function hands to take_action, or the exception it raises
TakeItem(action, args, option_string) ==
    [k |-> "take", action |-> action, args |-> args, option_string |-> option_string,
     err |-> NoErr]
RaiseItem(err) ==
    [k |-> "raise", action |-> 0, args |-> <<>>, option_string |-> <<>>, err |-> err]

Frame(p, arg_strings) ==
    [p |-> p, arg_strings |-> arg_strings, pc |-> "enter",
     arg_strings_pattern |-> <<>>, option_string_indices |-> <<>>,
     seen_actions |-> {}, seen_non_default_actions |-> <<>>,
     positionals |-> <<>>, extras |-> <<>>, start_index |-> 0,
     no_action |-> FALSE, penult |-> 0, ii |-> 0, cnt |-> 0,
     pending |-> <<>>, test_index |-> 1, tests_run |-> <<>>]

\* ArgumentParser._get_positional_actions
get_positional_actions(p) ==
    SelectSeq(parsers[p].actions, LAMBDA a : acts[a].option_strings = <<>>)

\* ArgumentParser._is_nargs_variable(actions)
is_nargs_variable(actions) ==
    \E i \in 1..Len(actions) : action_is_nargs_variable(acts[actions[i]])

(***************************************************************************)
(* _parse_known_args.consume_optional, without the calls of take_action:   *)
(* [stop, items, extras] with items the action tuples to take, or the      *)
(* exception raised while matching.                                        *)
(***************************************************************************)
Consumed(stop, items, extras) == [stop |-> stop, items |-> items, extras |-> extras]

\* shared_arg_count with the test of line 2687 turned round: the count is
\* shared by the occurrences that have an option string after them
shared_arg_count_but_for_last(f, action, selected_patterns) ==
    With(<<match_argument(acts[action], selected_patterns),
           match_arguments_partial(
               <<acts[action]>> \o [i \in 1..Len(f.positionals) |-> acts[f.positionals[i]]],
               selected_patterns)>>,
         LAMBDA counts :
             LET arg_count == counts[1]
                 slots == counts[2]
                 capped == /\ action_is_nargs_variable(acts[action])
                           /\ Count(selected_patterns, "O") > 0
                           /\ arg_count > slots[1]
             IN  IF arg_count = -1 THEN -1 ELSE IF capped THEN slots[1] ELSE arg_count)

\* shared_arg_count with the option matched as a '*' among the positionals:
\* the shared count may fall below what the nargs of the option asks for
shared_arg_count_any_number(f, action, selected_patterns) ==
    With(<<match_argument(acts[action], selected_patterns),
           match_arguments_partial(
               <<[acts[action] EXCEPT !.nargs = ZERO_OR_MORE]>>
                   \o [i \in 1..Len(f.positionals) |-> acts[f.positionals[i]]],
               selected_patterns)>>,
         LAMBDA counts :
             LET arg_count == counts[1]
                 slots == counts[2]
                 capped == /\ action_is_nargs_variable(acts[action])
                           /\ Count(selected_patterns, "O") <= f.ii
                           /\ arg_count > slots[1]
             IN  IF arg_count = -1 THEN -1 ELSE IF capped THEN slots[1] ELSE arg_count)

\* lines 2671-2689: the number of strings an option without explicit argument
\* takes of those after it (-1 when its pattern does not match); f.ii is the
\* penult argument of consume_optional
shared_arg_count(f, action, selected_patterns) ==
    With(<<match_argument(acts[action], selected_patterns),
           match_arguments_partial(
               <<acts[action]>> \o [i \in 1..Len(f.positionals) |-> acts[f.positionals[i]]],
               selected_patterns)>>,
         LAMBDA counts :
             LET arg_count == counts[1]
                 slots == counts[2]
                 capped == /\ action_is_nargs_variable(acts[action])
                           /\ Count(selected_patterns, "O") <= f.ii
                           /\ arg_count > slots[1]
             IN  IF arg_count = -1 THEN -1 ELSE IF capped THEN slots[1] ELSE arg_count)

RECURSIVE OptionalLoop(_, _, _, _, _, _)
OptionalLoop(f, start_index, action, option_string, explicit_arg, action_tuples) ==
    IF action = 0
    THEN Consumed(start_index + 1, <<>>, <<f.arg_strings[start_index + 1]>>)
    ELSE IF explicit_arg # None
    THEN LET arg_count == match_argument(acts[action], <<"A">>)
             new_option_string == <<option_string[1], explicit_arg[1][1]>>
             new_explicit_arg ==
                 IF Tail(explicit_arg[1]) = <<>> THEN None ELSE Some(Tail(explicit_arg[1]))
             optionals_map == parsers[f.p].option_string_actions
         IN  IF arg_count = -1
             THEN Consumed(start_index, <<RaiseItem(Err("expected arguments", action, <<>>))>>, <<>>)
             ELSE IF arg_count = 0 /\ option_string[2] \notin prefix_chars
             THEN IF explicit_arg[1] = <<>>
                  THEN Consumed(start_index, <<RaiseItem(Err("IndexError", action, <<>>))>>, <<>>)
                  ELSE IF DictHas(optionals_map, new_option_string)
                  THEN OptionalLoop(f, start_index, DictGet(optionals_map, new_option_string),
                                    new_option_string, new_explicit_arg,
                                    Append(action_tuples, TakeItem(action, <<>>, option_string)))
                  ELSE Consumed(start_index,
                                <<RaiseItem(Err("ignored explicit argument", action, explicit_arg))>>,
                                <<>>)
             ELSE IF arg_count = 1
             THEN Consumed(start_index + 1,
                           Append(action_tuples, TakeItem(action, explicit_arg, option_string)),
                           <<>>)
             ELSE Consumed(start_index,
                           <<RaiseItem(Err("ignored explicit argument", action, explicit_arg))>>,
                           <<>>)
    ELSE LET start == start_index + 1
             arg_count == shared_arg_count(f, action, DropFirst(f.arg_strings_pattern, start))
             stop == start + arg_count
         IN  IF arg_count = -1
             THEN Consumed(start_index, <<RaiseItem(Err("expected arguments", action, <<>>))>>, <<>>)
             ELSE Consumed(stop,
                           Append(action_tuples,
                                  TakeItem(action, Slice(f.arg_strings, start, stop), option_string)),
                           <<>>)

\* consume_optional keeping only the first flag of a cluster
consume_optional_first_flag(f, start_index) ==
    LET option_tuple == DictGet(f.option_string_indices, start_index)
        co == OptionalLoop(f, start_index, option_tuple.action, option_tuple.option_string,
                           option_tuple.explicit_arg, <<>>)
    IN  [co EXCEPT !.items = IF Len(@) > 1 THEN <<@[1]>> ELSE @]

\* consume_optional that returns the index it was given
consume_optional_in_place(f, start_index) ==
    LET option_tuple == DictGet(f.option_string_indices, start_index)
        co == OptionalLoop(f, start_index, option_tuple.action, option_tuple.option_string,
                           option_tuple.explicit_arg, <<>>)
    IN  [co EXCEPT !.stop = start_index]

consume_optional(f, start_index) ==
    LET option_tuple == DictGet(f.option_string_indices, start_index)
    IN  OptionalLoop(f, start_index, option_tuple.action, option_tuple.option_string,
                     option_tuple.explicit_arg, <<>>)

(***************************************************************************)
(* _parse_known_args.consume_positionals, without the calls of             *)
(* take_action: [stop, items, positionals].                                *)
(***************************************************************************)
\* while arg_counts and arg_counts[-1] == 0: arg_counts.pop()
RECURSIVE PopZeros(_)
PopZeros(arg_counts) ==
    IF arg_counts # <<>> /\ arg_counts[Len(arg_counts)] = 0
    THEN PopZeros(SubSeq(arg_counts, 1, Len(arg_counts) - 1))
    ELSE arg_counts

\* the strings of one positional: the first '--' of its span is deleted
PositionalArgs(f, action, start_index, arg_count) ==
    LET args == Slice(f.arg_strings, start_index, start_index + arg_count)
        pats == Slice(f.arg_strings_pattern, start_index, start_index + arg_count)
        ii == IndexOf(pats, "-")
    IN  IF acts[action].nargs \notin {PARSER, REMAINDER} /\ ii # 0
        THEN SubSeq(args, 1, ii - 1) \o SubSeq(args, ii + 1, Len(args))
        ELSE args

RECURSIVE PositionalItems(_, _, _, _)
\* for action, arg_count in zip(positionals, arg_counts)
PositionalItems(f, positionals, arg_counts, start_index) ==
    IF positionals = <<>> \/ arg_counts = <<>> THEN <<>>
    ELSE <<TakeItem(Head(positionals),
                    PositionalArgs(f, Head(positionals), start_index, Head(arg_counts)),
                    None)>>
         \o PositionalItems(f, Tail(positionals), Tail(arg_counts), start_index + Head(arg_counts))

\* arg_counts_of without lines 2717-2723: no count is popped
arg_counts_of_no_deferral(f, start_index) ==
    match_arguments_partial([i \in 1..Len(f.positionals) |-> acts[f.positionals[i]]],
                            DropFirst(f.arg_strings_pattern, start_index))

arg_counts_of(f, start_index) ==
    LET selected_pattern == DropFirst(f.arg_strings_pattern, start_index)
        arg_counts == match_arguments_partial(
                          [i \in 1..Len(f.positionals) |-> acts[f.positionals[i]]],
                          selected_pattern)
    IN  IF "O" \in Range(selected_pattern) THEN PopZeros(arg_counts) ELSE arg_counts

consume_positionals(f, start_index) ==
    With(arg_counts_of(f, start_index),
         LAMBDA arg_counts :
             [stop |-> start_index + SumSeq(arg_counts),
              items |-> PositionalItems(f, f.positionals, arg_counts, start_index),
              positionals |-> DropFirst(f.positionals, Len(arg_counts))])

(***************************************************************************)
(* The state of a parse call.                                              *)
(*   entry     : "parse_args" or "parse_known_args", the method called     *)
(*   argv      : the strings given to it                                   *)
(*   stack     : the frames of the running parse_known_args activations    *)
(*   namespace : the result mapping (one object, shared with sub-parsers), *)
(*               an ordered dict from attribute name to value              *)
(*   result    : [status, err, p, extras]; status is "running", "ok" or    *)
(*               "error" (the parser p called self.error)                  *)
(***************************************************************************)
VARIABLES entry, argv, stack, namespace, result

vars == <<sample3, last, acts, parsers, groups, entry, argv, stack, namespace, result>>

Top == stack[Len(stack)]
Running == result.status = "running" /\ stack # <<>>

Result(status, err, p, extras) ==
    [status |-> status, err |-> err, p |-> p, extras |-> extras]

\* self.error(...): the process exits, no frame survives
Fail(err) ==
    /\ result' = Result("error", err, Top.p, <<>>)
    /\ stack' = <<>>
    /\ UNCHANGED <<sample3, last, acts, parsers, groups, entry, argv, namespace>>

\* the top frame is replaced
SetTop(f) == stack' = [stack EXCEPT ![Len(stack)] = f]

(***************************************************************************)
(* parse_known_args, lines 2502-2516: the defaults of the actions, then    *)
(* of the parser, are set on the namespace where it has no such attribute. *)
(***************************************************************************)
RECURSIVE SeedDefaults(_, _)
SeedDefaults(actions, ns) ==
    IF actions = <<>> THEN ns
    ELSE LET a == Head(actions)
             action == acts[a]
             default == IF IsStr(action.default) THEN VDelayed(a, action.default[2])
                        ELSE action.default
         IN  SeedDefaults(Tail(actions),
                 IF /\ action.dest # SUPPRESS_DEST
                    /\ ~DictHas(ns, action.dest)
                    /\ action.default # VSuppress
                 THEN DictSet(ns, action.dest, default)
                 ELSE ns)

RECURSIVE SeedParserDefaults(_, _)
SeedParserDefaults(defaults, ns) ==
    IF defaults = <<>> THEN ns
    ELSE SeedParserDefaults(Tail(defaults),
             IF DictHas(ns, Head(defaults)[1]) THEN ns
             ELSE DictSet(ns, Head(defaults)[1], Head(defaults)[2]))

ParseKnownArgsEnter ==
    /\ Running
    /\ Top.pc = "enter"
    /\ namespace' = SeedParserDefaults(parsers[Top.p].defaults,
                                       SeedDefaults(parsers[Top.p].actions, namespace))
    /\ SetTop([Top EXCEPT !.pc = "classify"])
    /\ UNCHANGED <<sample3, last, acts, parsers, groups, entry, argv, result>>

(***************************************************************************)
(* _parse_known_args, lines 2559-2582: the option indices (from 0) and the *)
(* pattern, 'O' for an option, 'A' for an argument, '-' for the first      *)
(* '--'; every string after the first '--' is an 'A'.                      *)
(***************************************************************************)
DashDash == <<"-", "-">>

\* the index (from 1) of the first '--', 0 when there is none
FirstSeparator(arg_strings) == IndexOf(arg_strings, DashDash)

Classified(p, arg_strings, i) ==
    LET sep == FirstSeparator(arg_strings)
    IN  IF sep # 0 /\ i = sep THEN [t |-> "-"]
        ELSE IF sep # 0 /\ i > sep THEN [t |-> "A"]
        ELSE parse_optional(p, arg_strings[i])

ClassifyAll(p, arg_strings) ==
    [i \in 1..Len(arg_strings) |-> Classified(p, arg_strings, i)]

Classify ==
    /\ Running
    /\ Top.pc = "classify"
    /\ LET cls == ClassifyAll(Top.p, Top.arg_strings)
           bad == {i \in 1..Len(cls) : cls[i].t = "ambiguous"}
           first == CHOOSE i \in bad : \A j \in bad : i <= j
           opts == SelectSeq([i \in 1..Len(cls) |-> i], LAMBDA i : cls[i].t = "O")
       IN  IF bad # {}
           THEN Fail(Err("ambiguous option", 0, <<Top.arg_strings[first]>> \o cls[first].matches))
           ELSE /\ SetTop([Top EXCEPT
                       !.pc = "plan",
                       !.arg_strings_pattern = [i \in 1..Len(cls) |-> cls[i].t],
                       !.option_string_indices =
                           [k \in 1..Len(opts) |-> <<opts[k] - 1, cls[opts[k]].tuple>>],
                       !.positionals = get_positional_actions(Top.p)])
                /\ UNCHANGED <<sample3, last, acts, parsers, groups, entry, argv, namespace, result>>

(***************************************************************************)
(* _parse_known_args, lines 2793-2810: whether test loops are run.         *)
(***************************************************************************)
BeginPasses ==
    /\ Running
    /\ Top.pc = "plan"
    /\ LET penult == Count(Top.arg_strings_pattern, "O")
           osi == Top.option_string_indices
           opt_actions == SelectSeq([i \in 1..Len(osi) |-> osi[i][2].action], LAMBDA a : a # 0)
           test_loops == /\ is_nargs_variable(opt_actions)
                         /\ Top.positionals # <<>>
                         /\ penult > 1
       IN  SetTop([Top EXCEPT
               !.pc = "loop", !.penult = penult, !.ii = 0, !.no_action = test_loops,
               !.extras = <<>>, !.positionals = get_positional_actions(Top.p),
               !.start_index = 0])
    /\ UNCHANGED <<sample3, last, acts, parsers, groups, entry, argv, namespace, result>>

(***************************************************************************)
(* consume_loop, lines 2760-2785: one iteration of the while loop.  The    *)
(* calls of take_action it makes are queued in pending and run by          *)
(* TakeAction before the next iteration; a test loop (no_action) queues    *)
(* only the exception, if matching raised one.                             *)
(***************************************************************************)
max_option_string_index(f) ==
    IF f.option_string_indices = <<>> THEN -1
    ELSE f.option_string_indices[Len(f.option_string_indices)][1]

next_option_string_index(f) ==
    LET later == {i \in 1..Len(f.option_string_indices) :
                     f.option_string_indices[i][1] >= f.start_index}
    IN  f.option_string_indices[CHOOSE i \in later : \A j \in later : i <= j][1]

\* Queued without the test of no_action: a test loop takes its actions
Queued_in_test_loops(f, items) == items

Queued(f, items) ==
    IF f.no_action THEN SelectSeq(items, LAMBDA it : it.k = "raise") ELSE items

\* the frame after one iteration of the while loop
LoopIteration(f) ==
    LET next == next_option_string_index(f)
        \* the frame when the option is reached in this iteration
        AtOption(g, items) ==
            LET lost == IF DictHas(g.option_string_indices, g.start_index) THEN <<>>
                        ELSE Slice(g.arg_strings, g.start_index, next)
                at == IF DictHas(g.option_string_indices, g.start_index) THEN g.start_index
                      ELSE next
            IN  With(consume_optional(g, at),
                     LAMBDA co : [g EXCEPT !.extras = g.extras \o lost \o co.extras,
                                           !.start_index = co.stop,
                                           !.pending = Queued(g, items \o co.items)])
    IN  IF f.start_index # next
        THEN With(consume_positionals(f, f.start_index),
                  LAMBDA cp :
                      IF cp.stop > f.start_index
                      THEN [f EXCEPT !.start_index = cp.stop, !.positionals = cp.positionals,
                                     !.pending = Queued(f, cp.items)]
                      ELSE With([f EXCEPT !.positionals = cp.positionals],
                                LAMBDA g : AtOption(g, cp.items)))
        ELSE AtOption(f, <<>>)

LoopStep ==
    /\ Running
    /\ Top.pc = "loop"
    /\ Top.pending = <<>>
    /\ Top.start_index <= max_option_string_index(Top)
    /\ SetTop(LoopIteration(Top))
    /\ UNCHANGED <<sample3, last, acts, parsers, groups, entry, argv, namespace, result>>

(***************************************************************************)
(* consume_loop, lines 2786-2791: the positionals after the last option,   *)
(* and what is left over.                                                  *)
(***************************************************************************)
LoopTail ==
    /\ Running
    /\ Top.pc = "loop"
    /\ Top.pending = <<>>
    /\ Top.start_index > max_option_string_index(Top)
    /\ \E cp \in {consume_positionals(Top, Top.start_index)} :
           SetTop([Top EXCEPT
               !.pc = "passend",
               !.start_index = cp.stop,
               !.positionals = cp.positionals,
               !.extras = Top.extras \o DropFirst(Top.arg_strings, cp.stop),
               !.pending = Queued(Top, cp.items)])
    /\ UNCHANGED <<sample3, last, acts, parsers, groups, entry, argv, namespace, result>>

(***************************************************************************)
(* _parse_known_args, lines 2801-2815: after a test loop, either the next  *)
(* test loop or the real loop; after the real loop, the required check.    *)
(***************************************************************************)
PassEnd ==
    /\ Running
    /\ Top.pc = "passend"
    /\ Top.pending = <<>>
    /\ LET fresh == [Top EXCEPT !.pc = "loop", !.cnt = Top.cnt + 1, !.extras = <<>>,
                                !.positionals = get_positional_actions(Top.p),
                                !.start_index = 0]
       IN  IF ~Top.no_action THEN SetTop([Top EXCEPT !.pc = "required", !.cnt = Top.cnt + 1])
           ELSE IF Top.positionals = <<>> \/ Top.ii + 1 >= Top.penult
           THEN SetTop([fresh EXCEPT !.no_action = FALSE])
           ELSE SetTop([fresh EXCEPT !.ii = Top.ii + 1])
    /\ UNCHANGED <<sample3, last, acts, parsers, groups, entry, argv, namespace, result>>

(***************************************************************************)
(* The __call__ methods of the built-in action classes: the namespace      *)
(* after the call.  (_SubParsersAction sets its dest here and runs the     *)
(* sub-command parser in TakeAction.)                                      *)
(***************************************************************************)
\* _ensure_value(namespace, name, value)
ensure_value(ns, name, value) ==
    IF ~DictHas(ns, name) \/ DictGet(ns, name) = VNone THEN value ELSE DictGet(ns, name)

CallAction(a, ns, values) ==
    LET action == acts[a]
    IN  CASE action.kind = "store" -> DictSet(ns, action.dest, values)
          [] action.kind = "store_const" -> DictSet(ns, action.dest, action.const)
          [] action.kind = "append" ->
                DictSet(ns, action.dest,
                        VList(Append(ensure_value(ns, action.dest, VList(<<>>))[2], values)))
          [] action.kind = "count" ->
                DictSet(ns, action.dest, VInt(ensure_value(ns, action.dest, VInt(0))[2] + 1))
          [] action.kind = "parsers" ->
                IF action.dest # SUPPRESS_DEST THEN DictSet(ns, action.dest, values[2][1])
                ELSE ns

\* the actions after a call of CondAction of src/issue25626109.py, which
\* makes other actions required: here every other action
ActionsAfterCall_of_CondAction(a) ==
    [b \in 1..Len(acts) |-> IF b = a THEN acts[b] ELSE [acts[b] EXCEPT !.required = TRUE]]

\* the actions after action(self, namespace, values, option_string) of a
\* built-in class: __call__ sets attributes of the namespace and of no action
ActionsAfterCall(a) == acts

(***************************************************************************)
(* _parse_known_args.take_action, lines 2588-2611, for the first queued    *)
(* action tuple; a queued exception is raised instead.                     *)
(***************************************************************************)
TakeAction ==
    /\ Running
    /\ Top.pending # <<>>
    /\ LET it == Head(Top.pending)
           gv == get_values(it.action, it.args)
           f == [Top EXCEPT
                    !.pending = Tail(Top.pending),
                    !.seen_actions = @ \cup {it.action},
                    !.seen_non_default_actions =
                        IF gv.using_default THEN @ ELSE Append(@, it.action)]
           parser_name == gv.value[2][1][2]
           map == acts[it.action].name_parser_map
       IN  IF it.k = "raise" THEN Fail(it.err)
           ELSE IF gv.err # None THEN Fail(gv.err[1])
           ELSE IF gv.value = VSuppress
           THEN /\ SetTop(f)
                /\ UNCHANGED <<sample3, last, acts, parsers, groups, entry, argv, namespace, result>>
           ELSE IF acts[it.action].kind = "help"
           THEN \* _HelpAction.__call__: parser.print_help(); parser.exit()
                /\ result' = Result("exit", NoErr, Top.p, <<>>)
                /\ stack' = <<>>
                /\ UNCHANGED <<sample3, last, acts, parsers, groups, entry, argv, namespace>>
           ELSE IF acts[it.action].kind = "parsers"
           THEN IF ~DictHas(map, parser_name)
                THEN Fail(Err("unknown parser", it.action, <<parser_name>>))
                ELSE /\ namespace' = CallAction(it.action, namespace, gv.value)
                     /\ acts' = ActionsAfterCall(it.action)
                     /\ stack' = Append([stack EXCEPT ![Len(stack)] = f],
                                        Frame(DictGet(map, parser_name),
                                              [i \in 1..(Len(it.args) - 1) |-> it.args[i + 1]]))
                     /\ UNCHANGED <<sample3, last, parsers, groups, entry, argv, result>>
           ELSE /\ namespace' = CallAction(it.action, namespace, gv.value)
                /\ acts' = ActionsAfterCall(it.action)
                /\ SetTop(f)
                /\ UNCHANGED <<sample3, last, parsers, groups, entry, argv, result>>

(***************************************************************************)
(* _parse_known_args, lines 2817-2836: every required action that is not   *)
(* among the seen non-default actions is named in one error.               *)
(***************************************************************************)
RequiredCheck ==
    /\ Running
    /\ Top.pc = "required"
    /\ LET required_actions ==
               SelectSeq(parsers[Top.p].actions,
                         LAMBDA a : /\ a \notin Range(Top.seen_non_default_actions)
                                    /\ acts[a].required)
       IN  IF required_actions # <<>>
           THEN Fail(Err("the following arguments are required", 0, required_actions))
           ELSE /\ SetTop([Top EXCEPT !.pc = "cross_tests", !.test_index = 1])
                /\ UNCHANGED <<sample3, last, acts, parsers, groups, entry, argv, namespace, result>>

(***************************************************************************)
(* _NestingGroup.count_actions and the tests of the group kinds.  A test   *)
(* is [err |-> None or Some(error), value |-> what the function returns,   *)
(* as a truth value].                                                      *)
(***************************************************************************)
Tested(err, value) == [err |-> err, value |-> value]

IsAction(member) == member[1] = "A"
IsGroup(member) == member[1] = "G"

RECURSIVE group_fn(_, _)

\* [a for a in groups if a.fn(parser, seen_actions, ...)], up to the first error
RECURSIVE OkGroups(_, _)
OkGroups(members, seen_actions) ==
    IF members = <<>> THEN [err |-> None, ok |-> {}]
    ELSE LET t == group_fn(Head(members)[2], seen_actions)
             rest == OkGroups(Tail(members), seen_actions)
         IN  IF t.err # None THEN [err |-> t.err, ok |-> {}]
             ELSE [err |-> rest.err,
                   ok |-> IF t.value THEN {Head(members)} \cup rest.ok ELSE rest.ok]

\* count_actions with the seen actions of the nested groups that pass counted
\* with those of the group: [err, cnt]
count_actions_of_descendants(g, seen_actions) ==
    LET group_actions == groups[g].group_actions
        okgroups == OkGroups(SelectSeq(group_actions, IsGroup), seen_actions)
        Seen(h) == {m \in Range(groups[h].group_actions) :
                       IsAction(m) /\ m[2] \in Range(seen_actions)}
    IN  [err |-> okgroups.err,
         cnt |-> Cardinality(Seen(g) \cup UNION {Seen(m[2]) : m \in okgroups.ok})]

\* [err, cnt]
count_actions(g, seen_actions) ==
    LET group_actions == groups[g].group_actions
        actions == {m \in Range(group_actions) : IsAction(m)}
        okgroups == OkGroups(SelectSeq(group_actions, IsGroup), seen_actions)
        group_seen == {m \in actions : m[2] \in Range(seen_actions)} \cup okgroups.ok
    IN  [err |-> okgroups.err, cnt |-> Cardinality(group_seen)]

\* test_mx_group with the limit one too high: two seen members are let through
test_mx_group_two_allowed(g, seen_non_default_actions) ==
    LET c == count_actions(g, seen_non_default_actions)
    IN  IF c.err # None THEN Tested(c.err, FALSE)
        ELSE IF c.cnt > 2 THEN Tested(Some(Err("only one the arguments is allowed", 0, <<g>>)), FALSE)
        ELSE IF c.cnt = 0 /\ groups[g].required
        THEN Tested(Some(Err("one of the arguments is required", 0, <<g>>)), FALSE)
        ELSE Tested(None, c.cnt > 0)

test_mx_group(g, seen_non_default_actions) ==
    LET c == count_actions(g, seen_non_default_actions)
    IN  IF c.err # None THEN Tested(c.err, FALSE)
        ELSE IF c.cnt > 1 THEN Tested(Some(Err("only one the arguments is allowed", 0, <<g>>)), FALSE)
        ELSE IF c.cnt = 0 /\ groups[g].required
        THEN Tested(Some(Err("one of the arguments is required", 0, <<g>>)), FALSE)
        ELSE Tested(None, c.cnt > 0)

\* test_inc_group without the all-or-none test: one seen member is let through
test_inc_group_some_allowed(g, seen_non_default_actions) ==
    LET c == count_actions(g, seen_non_default_actions)
    IN  IF c.err # None THEN Tested(c.err, FALSE)
        ELSE IF c.cnt = 0 /\ groups[g].required
        THEN Tested(Some(Err("all of the arguments is required", 0, <<g>>)), FALSE)
        ELSE Tested(None, c.cnt > 0)

test_inc_group(g, seen_non_default_actions) ==
    LET c == count_actions(g, seen_non_default_actions)
    IN  IF c.err # None THEN Tested(c.err, FALSE)
        ELSE IF c.cnt > 0 /\ c.cnt < Len(groups[g].group_actions)
        THEN Tested(Some(Err("all of the arguments are required", 0, <<g>>)), FALSE)
        ELSE IF c.cnt = 0 /\ groups[g].required
        THEN Tested(Some(Err("all of the arguments is required", 0, <<g>>)), FALSE)
        ELSE Tested(None, c.cnt > 0)

test_any_group(g, seen_non_default_actions) ==
    LET c == count_actions(g, seen_non_default_actions)
    IN  IF c.err # None THEN Tested(c.err, FALSE)
        ELSE IF c.cnt = 0 /\ groups[g].required
        THEN Tested(Some(Err("some of the arguments is required", 0, <<g>>)), FALSE)
        ELSE Tested(None, c.cnt > 0)

\* it counts its seen actions, raises nothing and returns None
test_this_group(g, seen_non_default_actions) == Tested(None, FALSE)

\* the function _NestingGroup.__init__ selects for the kind of the group
test_group(g, seen_non_default_actions) ==
    CASE groups[g].kind = "mxg" -> test_mx_group(g, seen_non_default_actions)
      [] groups[g].kind = "inc" -> test_inc_group(g, seen_non_default_actions)
      [] groups[g].kind = "any" -> test_any_group(g, seen_non_default_actions)
      [] OTHER -> test_this_group(g, seen_non_default_actions)

\* the test of a UsageGroup of the kind 'not' that passes its child on as it is
test_not_group_as_child(g, seen_non_default_actions) ==
    LET c == count_actions(g, seen_non_default_actions)
    IN  IF c.err # None THEN Tested(c.err, FALSE)
        ELSE IF c.cnt = 0 /\ (groups[g].required \/ ~groups[g].has_fn)
        THEN Tested(Some(Err("not allowed", 0, <<g>>)), FALSE)
        ELSE Tested(None, c.cnt > 0)

\* the test of a UsageGroup of the kind 'not', which is not in src/argparse.py:
\* the group is present when its child is not; a group that is required, or
\* is a test of the parser, raises when it is not present
test_not_group(g, seen_non_default_actions) ==
    LET c == count_actions(g, seen_non_default_actions)
    IN  IF c.err # None THEN Tested(c.err, FALSE)
        ELSE IF c.cnt > 0 /\ (groups[g].required \/ ~groups[g].has_fn)
        THEN Tested(Some(Err("not allowed", 0, <<g>>)), FALSE)
        ELSE Tested(None, c.cnt = 0)

\* group.fn, or the test the group has registered
group_fn(g, seen_non_default_actions) ==
    IF groups[g].usage THEN test_not_group(g, seen_non_default_actions)
    ELSE test_group(g, seen_non_default_actions)

(***************************************************************************)
(* _parse_known_args, lines 2858-2859: the registered cross tests, one at  *)
(* a time, in the order of the registry.                                   *)
(***************************************************************************)
get_cross_tests(p) == parsers[p].cross_tests

\* a test function of the caller, as the test of src/issue10984_sharma.py:
\* if action in seen_actions: parser.error(...)
user_test(testfn, seen_non_default_actions) ==
    IF testfn[3] \in Range(seen_non_default_actions)
    THEN Tested(Some(Err("cross test", testfn[3], <<testfn[2]>>)), FALSE)
    ELSE Tested(None, FALSE)

\* testfn(self, seen_non_default_actions, ...)
call_test(testfn, seen_non_default_actions) ==
    IF testfn[1] = "G" THEN group_fn(testfn[2], seen_non_default_actions)
    ELSE user_test(testfn, seen_non_default_actions)

CrossTest ==
    /\ Running
    /\ Top.pc = "cross_tests"
    /\ Top.test_index <= Len(get_cross_tests(Top.p))
    /\ LET testfn == get_cross_tests(Top.p)[Top.test_index][2]
           t == call_test(testfn, Top.seen_non_default_actions)
       IN  IF t.err # None THEN Fail(t.err[1])
           ELSE /\ SetTop([Top EXCEPT !.test_index = @ + 1,
                                      !.tests_run = Append(@, testfn)])
                /\ UNCHANGED <<sample3, last, acts, parsers, groups, entry, argv, namespace, result>>

(***************************************************************************)
(* parse_known_args, lines 2520-2534, after _parse_known_args returned:    *)
(* the delayed defaults left in the namespace are converted, the           *)
(* unrecognized strings a sub-parser stored are appended to the extras,    *)
(* and (namespace, extras) is returned: to _SubParsersAction.__call__      *)
(* (lines 1596-1599) when a sub-command parser returns, else to the caller.*)
(***************************************************************************)
\* [err, ns]
RECURSIVE EvalDelayed(_, _)
EvalDelayed(actions, ns) ==
    IF actions = <<>> THEN [err |-> None, ns |-> ns]
    ELSE LET dest == acts[Head(actions)].dest
             value == IF DictHas(ns, dest) THEN DictGet(ns, dest) ELSE VNone
             conv == get_value(value[2], value[3])
         IN  IF value[1] # "delayed" THEN EvalDelayed(Tail(actions), ns)
             ELSE IF conv[1] = "err" THEN [err |-> Some(conv[2]), ns |-> ns]
             ELSE EvalDelayed(Tail(actions), DictSet(ns, dest, conv[2]))

\* parse_known_args without its lines 2531-2533
Unrecognized_not_collected(ns) == <<>>

\* the strings stored under _UNRECOGNIZED_ARGS_ATTR
Unrecognized(ns) ==
    IF DictHas(ns, UNRECOGNIZED_ARGS_ATTR) THEN DictGet(ns, UNRECOGNIZED_ARGS_ATTR)[2] ELSE <<>>

ParseKnownArgsReturn ==
    /\ Running
    /\ Top.pc = "cross_tests"
    /\ Top.test_index > Len(get_cross_tests(Top.p))
    /\ LET ev == EvalDelayed(parsers[Top.p].actions, namespace)
           args == Top.extras \o Unrecognized(ev.ns)
           ns == DictPop(ev.ns, UNRECOGNIZED_ARGS_ATTR)
       IN  IF ev.err # None THEN Fail(ev.err[1])
           ELSE /\ UNCHANGED <<sample3, last, acts, parsers, groups, entry, argv>>
                /\ IF Len(stack) > 1
                   THEN \* back in _SubParsersAction.__call__
                        /\ stack' = SubSeq(stack, 1, Len(stack) - 1)
                        /\ namespace' =
                              IF args # <<>>
                              THEN DictSet(ns, UNRECOGNIZED_ARGS_ATTR,
                                           VList(Unrecognized(ns) \o args))
                              ELSE ns
                        /\ UNCHANGED result
                   ELSE IF entry = "parse_args"
                   THEN /\ stack' = <<[Top EXCEPT !.pc = "parse_args", !.extras = args]>>
                        /\ namespace' = ns
                        /\ UNCHANGED result
                   ELSE /\ stack' = <<>>
                        /\ namespace' = ns
                        /\ result' = Result("ok", NoErr, Top.p, args)

(***************************************************************************)
(* parse_args, lines 2484-2488                                             *)
(***************************************************************************)
ParseArgsReturn ==
    /\ Running
    /\ Top.pc = "parse_args"
    /\ IF Top.extras # <<>>
       THEN Fail(Err("unrecognized arguments", 0, Top.extras))
       ELSE /\ stack' = <<>>
            /\ result' = Result("ok", NoErr, Top.p, <<>>)
            /\ UNCHANGED <<sample3, last, acts, parsers, groups, entry, argv, namespace>>

(***************************************************************************)
(* Configuration.  A configuration c is [acts, parsers, groups]; the       *)
(* operations below are the configuration methods as functions from a      *)
(* configuration to [c, err]: the configuration after the call and the     *)
(* exception the call raised (None when it returned).                      *)
(*                                                                         *)
(* A container is [p, title]: one of the two argument groups every parser  *)
(* creates ("positional arguments", "optional arguments"); both share the  *)
(* parser's _actions and _option_string_actions.                           *)
(***************************************************************************)
Done(c, err) == [c |-> c, err |-> err]

Container(p, title) == [p |-> p, title |-> title]

EmptyConfig == [acts |-> <<>>, parsers |-> <<>>, groups |-> <<>>]

\* _ActionsContainer.__init__ / ArgumentParser.__init__ without the parents
NewParserRecord(conflict_handler) ==
    [conflict_handler |-> conflict_handler,
     actions |-> <<>>,
     option_string_actions |-> <<>>,
     positionals |-> <<>>,
     optionals |-> <<>>,
     mutually_exclusive_groups |-> <<>>,
     defaults |-> <<>>,
     cross_tests |-> <<>>,
     registered |-> <<>>,
     has_negative_number_optionals |-> FALSE]

\* _group_actions of a container
GroupActions(c, cont) ==
    IF cont.title = "optionals" THEN c.parsers[cont.p].optionals
    ELSE c.parsers[cont.p].positionals

SetGroupActions(c, cont, list) ==
    IF cont.title = "optionals" THEN [c EXCEPT !.parsers[cont.p].optionals = list]
    ELSE [c EXCEPT !.parsers[cont.p].positionals = list]

(***************************************************************************)
(* _ArgumentGroup._remove_action: the action leaves the _actions list the  *)
(* group shares with its parser, and the group's own list; list.remove     *)
(* raises ValueError when the action is not there.                         *)
(***************************************************************************)
remove_action(c, cont, a) ==
    IF a \notin Range(c.parsers[cont.p].actions)
    THEN Done(c, Some(Err("ValueError", a, <<>>)))
    ELSE LET c1 == [c EXCEPT !.parsers[cont.p].actions = ListRemove(@, a)]
         IN  IF a \notin Range(GroupActions(c, cont))
             THEN Done(c1, Some(Err("ValueError", a, <<>>)))
             ELSE Done(SetGroupActions(c1, cont, ListRemove(GroupActions(c, cont), a)), None)

(***************************************************************************)
(* _ActionsContainer._handle_conflict_resolve (src/argparse.py), for one   *)
(* (option_string, action) pair.                                           *)
(***************************************************************************)
resolve_pair(c, self, option_string, a) ==
    IF option_string \notin Range(c.acts[a].option_strings)
    THEN Done(c, Some(Err("ValueError", a, <<option_string>>)))
    ELSE LET c1 == [c EXCEPT
                       !.acts[a].option_strings = ListRemove(@, option_string),
                       !.parsers[self.p].option_string_actions = DictPop(@, option_string)]
         IN  IF c1.acts[a].option_strings = <<>>
             THEN remove_action(c1, c1.acts[a].container[1], a)
             ELSE Done(c1, None)

(***************************************************************************)
(* _handle_conflict_resolve as src/sample3.py replaces it: the edge of the *)
(* container the action is removed from is deleted from action.containers; *)
(* logger.warn(..., lvl=30) raises TypeError when an edge is left.         *)
(***************************************************************************)
\* DeleteEdge that deletes the first edge, whose ever it is
DeleteEdge_the_first(containers, cont) ==
    IF containers = <<>> THEN containers ELSE Tail(containers)

\* del action.containers[i] for the first i with containers[i][1] is container
DeleteEdge(containers, cont) ==
    LET hit == {i \in 1..Len(containers) : containers[i][2] = cont}
        Without(i) == SubSeq(containers, 1, i - 1) \o SubSeq(containers, i + 1, Len(containers))
    IN  IF hit = {} THEN containers
        ELSE Without(CHOOSE i \in hit : \A j \in hit : i <= j)

resolve_pair_sample3(c, self, option_string, a) ==
    LET Edged(r, left) ==
            Done([r.c EXCEPT !.acts[a].containers = Some(left)],
                 IF left # <<>> THEN Some(Err("TypeError", a, <<>>)) ELSE None)
        Resolved(r) ==
            IF r.err # None \/ r.c.acts[a].option_strings # <<>> \/ r.c.acts[a].containers = None
            THEN r
            ELSE Edged(r, DeleteEdge(r.c.acts[a].containers[1], r.c.acts[a].container[1]))
    IN  Resolved(resolve_pair(c, self, option_string, a))

(***************************************************************************)
(* _handle_conflict_parent (src/sample3.py), for one pair.                 *)
(***************************************************************************)
\* find_parser: <<count, None or Some(container)>>
find_parser(c, self, a) ==
    LET containers == c.acts[a].containers
        same == {i \in 1..Len(containers[1]) : containers[1][i][1] = self.p}
    IN  IF containers = None THEN <<1, c.acts[a].container>>
        ELSE IF same = {} THEN <<Len(containers[1]), None>>
        ELSE <<Len(containers[1]),
               Some(containers[1][CHOOSE i \in same : \A j \in same : i <= j][2])>>

\* the nested remove_action(action, container)
parent_remove_action(c, cont, a) ==
    LET Edged(r, left) ==
            Done([r.c EXCEPT !.acts[a].containers = Some(left)],
                 IF left # <<>> /\ r.c.acts[a].option_strings = <<>>
                 THEN Some(Err("AssertionError", a, <<>>)) ELSE None)
        Removed(r) ==
            IF r.err # None \/ r.c.acts[a].containers = None THEN r
            ELSE Edged(r, DeleteEdge(r.c.acts[a].containers[1], cont))
    IN  Removed(remove_action(c, cont, a))

RECURSIVE PopAll(_, _)
PopAll(d, keys) == IF keys = <<>> THEN d ELSE PopAll(DictPop(d, Head(keys)), Tail(keys))

\* _handle_conflict_parent without the count of owners: the shared action
\* loses the option string, as under the resolve policy
parent_pair_uncounted(c, self, option_string, a) ==
    LET c1 == [c EXCEPT
                  !.acts[a].option_strings = ListRemove(@, option_string),
                  !.parsers[self.p].option_string_actions = DictPop(@, option_string)]
        Found(container) ==
            IF container = None THEN Done(c, None)
            ELSE IF c1.acts[a].option_strings = <<>>
            THEN parent_remove_action(c1, container[1], a)
            ELSE Done(c1, None)
    IN  Found(find_parser(c, self, a)[2])

\* _handle_conflict_parent without lines 109-110 of src/sample3.py: the
\* strings of the action that has left stay in the index of the parser
parent_pair_keeping_strings(c, self, option_string, a) ==
    LET c1 == [c EXCEPT
                  !.acts[a].option_strings = ListRemove(@, option_string),
                  !.parsers[self.p].option_string_actions = DictPop(@, option_string)]
        Found(count, container) ==
            IF container = None THEN Done(c, None)
            ELSE IF count > 1
            THEN IF a \in Range(c.parsers[container[1].p].actions)
                 THEN parent_remove_action(c, container[1], a)
                 ELSE Done(c, None)
            ELSE IF option_string \notin Range(c.acts[a].option_strings)
            THEN Done(c, Some(Err("ValueError", a, <<option_string>>)))
            ELSE IF c1.acts[a].option_strings = <<>>
            THEN parent_remove_action(c1, container[1], a)
            ELSE Done(c1, None)
    IN  Found(find_parser(c, self, a)[1], find_parser(c, self, a)[2])

parent_pair(c, self, option_string, a) ==
    LET c1 == [c EXCEPT
                  !.acts[a].option_strings = ListRemove(@, option_string),
                  !.parsers[self.p].option_string_actions = DictPop(@, option_string)]
        \* the action has left the container: its strings leave this parser
        Removed(r) ==
            IF r.err # None THEN r
            ELSE Done([r.c EXCEPT !.parsers[self.p].option_string_actions =
                           PopAll(@, r.c.acts[a].option_strings)], None)
        \* found is <<count, container>>, as find_parser returns it
        Found(count, container) ==
            IF container = None THEN Done(c, None)
            ELSE IF count > 1
            THEN IF a \in Range(c.parsers[container[1].p].actions)
                 THEN Removed(parent_remove_action(c, container[1], a))
                 ELSE Done(c, None)
            ELSE IF option_string \notin Range(c.acts[a].option_strings)
            THEN Done(c, Some(Err("ValueError", a, <<option_string>>)))
            ELSE IF c1.acts[a].option_strings = <<>>
            THEN parent_remove_action(c1, container[1], a)
            ELSE Done(c1, None)
    IN  Found(find_parser(c, self, a)[1], find_parser(c, self, a)[2])

(***************************************************************************)
(* _ActionsContainer._check_conflict: the colliding pairs are collected    *)
(* first, then handed to the handler of the container's policy.  patched   *)
(* says whether src/sample3.py was imported (it replaces                   *)
(* _handle_conflict_resolve and _add_container_actions and adds the        *)
(* "parent" policy).                                                       *)
(***************************************************************************)
confl_optionals(c, self, a) ==
    LET osa == c.parsers[self.p].option_string_actions
        strings == SelectSeq(c.acts[a].option_strings, LAMBDA o : DictHas(osa, o))
    IN  [i \in 1..Len(strings) |-> <<strings[i], DictGet(osa, strings[i])>>]

handle_conflict_pair(c, self, patched, pair) ==
    CASE c.parsers[self.p].conflict_handler = "resolve" ->
            IF patched THEN resolve_pair_sample3(c, self, pair[1], pair[2])
            ELSE resolve_pair(c, self, pair[1], pair[2])
      [] c.parsers[self.p].conflict_handler = "parent" ->
            parent_pair(c, self, pair[1], pair[2])

RECURSIVE HandlePairs(_, _, _, _)
HandlePairs(c, self, patched, pairs) ==
    LET Handled(r) == IF r.err # None THEN r ELSE HandlePairs(r.c, self, patched, Tail(pairs))
    IN  IF pairs = <<>> THEN Done(c, None)
        ELSE Handled(handle_conflict_pair(c, self, patched, Head(pairs)))

\* check_conflict with an error policy that raises after the conflicting
\* strings were taken from the actions that had them
check_conflict_error_after_resolve(c, self, patched, a) ==
    LET pairs == confl_optionals(c, self, a)
    IN  IF pairs = <<>> THEN Done(c, None)
        ELSE IF c.parsers[self.p].conflict_handler = "error"
        THEN Done(resolve_pair(c, self, pairs[1][1], pairs[1][2]).c,
                  Some(Err("conflicting option string", a, DictKeys(pairs))))
        ELSE HandlePairs(c, self, patched, pairs)

\* _handle_conflict_error raises and changes nothing
check_conflict(c, self, patched, a) ==
    LET pairs == confl_optionals(c, self, a)
    IN  IF pairs = <<>> THEN Done(c, None)
        ELSE IF c.parsers[self.p].conflict_handler = "error"
        THEN Done(c, Some(Err("conflicting option string", a, DictKeys(pairs))))
        ELSE HandlePairs(c, self, patched, pairs)

(***************************************************************************)
(* _ArgumentGroup._add_action over _ActionsContainer._add_action           *)
(***************************************************************************)
RECURSIVE IndexStrings(_, _, _)
IndexStrings(osa, strings, a) ==
    IF strings = <<>> THEN osa
    ELSE IndexStrings(DictSet(osa, Head(strings), a), Tail(strings), a)

\* self._negative_number_matcher: '^-\d+$|^-\d*\.\d+$' over the model's characters
LooksNegative(o) == Len(o) > 1 /\ o[1] = "-" /\ Range(Tail(o)) \subseteq Digits

group_add_action(c, self, patched, a) ==
    LET Listed(c1) == Done(SetGroupActions(c1, self, Append(GroupActions(c1, self), a)), None)
        Checked_(r) ==
            IF r.err # None THEN r
            ELSE Listed([r.c EXCEPT
                            !.parsers[self.p].actions = Append(@, a),
                            !.acts[a].container = Some(self),
                            !.parsers[self.p].option_string_actions =
                                IndexStrings(@, r.c.acts[a].option_strings, a),
                            !.parsers[self.p].has_negative_number_optionals =
                                @ \/ \E o \in Range(r.c.acts[a].option_strings) :
                                        LooksNegative(o)])
    IN  Checked_(check_conflict(c, self, patched, a))

\* ArgumentParser._add_action
parser_add_action(c, p, patched, a) ==
    group_add_action(c,
                     IF c.acts[a].option_strings # <<>> THEN Container(p, "optionals")
                     ELSE Container(p, "positionals"),
                     patched, a)

\* _NestingGroup._add_action
nesting_add_action(c, g, patched, a) ==
    IF c.groups[g].kind = "mxg" /\ c.acts[a].required
    THEN Done(c, Some(Err("mutually exclusive arguments must be optional", a, <<>>)))
    ELSE LET Added(r) ==
                 IF r.err # None THEN r
                 ELSE Done([r.c EXCEPT !.groups[g].group_actions = Append(@, <<"A", a>>)],
                           None)
         IN  Added(parser_add_action(c, c.groups[g].parser, patched, a))

(***************************************************************************)
(* The registry 'cross_tests' of a parser: a dict from the name a test is  *)
(* registered under to the test.  A test is the bound test method of a     *)
(* group, <<"G", g>>, or a function of the caller, <<"F", ident, a>>: the  *)
(* function ident, which calls parser.error when the action a is among the *)
(* seen actions.  registered is the list of the calls of register, for the *)
(* properties: the parser keeps the dict only.                             *)
(***************************************************************************)
GroupTest(g) == <<"G", g>>
UserTest(ident, a) == <<"F", ident, a>>

\* _ActionsContainer.register('cross_tests', value, object): registry[value] = object
register(c, p, value, object) ==
    [c EXCEPT !.parsers[p].cross_tests = DictSet(@, value, object),
              !.parsers[p].registered = Append(@, <<value, object>>)]

\* ArgumentParser.crosstest(func), func.__name__ being name
crosstest(c, p, name, func) == register(c, p, <<"name", name>>, func)

(***************************************************************************)
(* _NestingGroup.__init__ with add_nested_group /                          *)
(* add_mutually_exclusive_group: owner is <<"P", p>> for a parser and      *)
(* <<"G", g>> for a nesting group.  A group made on a parser registers     *)
(* its test under a key of its own (str(id(self))); a group nested in a    *)
(* group keeps its test in fn and joins the _group_actions of its owner.   *)
(***************************************************************************)
add_nested_group(c, owner, kind, required) ==
    LET g == Len(c.groups) + 1
        p == IF owner[1] = "P" THEN owner[2] ELSE c.groups[owner[2]].parser
        group == [kind |-> kind, required |-> required, group_actions |-> <<>>,
                  container |-> owner, parser |-> p, has_fn |-> owner[1] = "G",
                  usage |-> FALSE]
        c1 == [c EXCEPT !.groups = Append(@, group)]
    IN  IF owner[1] = "P"
        THEN [register(c1, p, <<"id", g>>, GroupTest(g)) EXCEPT
                 !.parsers[p].mutually_exclusive_groups = Append(@, g)]
        ELSE [c1 EXCEPT !.groups[owner[2]].group_actions = Append(@, <<"G", g>>)]

add_mutually_exclusive_group(c, p, required) == add_nested_group(c, <<"P", p>>, "mxg", required)

\* add_usage_group(kind='not', required=...), which src/issue25626109.py calls
\* and src/argparse.py does not define: the group is made as a nested group
\* is, registered with the parser or listed by its owner, and is a UsageGroup
add_usage_group(c, owner, kind, required) ==
    LET c1 == add_nested_group(c, owner, kind, required)
    IN  [c1 EXCEPT !.groups[Len(c1.groups)].usage = TRUE]

(***************************************************************************)
(* _ActionsContainer._add_container_actions(container): the actions of a   *)
(* parent are added, not copied.  Each goes to the group of this parser    *)
(* with the title of its group in the parent, or to the new exclusive      *)
(* group made for a group of the parent that lists it.  As src/sample3.py  *)
(* replaces it (patched), the pairs (parser, group) holding the action are *)
(* recorded in action.containers.                                          *)
(***************************************************************************)
\* the group of the parent an action is mapped by: <<"T", title>>, <<"M", i>>
\* (the i-th exclusive group of the parent) or <<"S">> (self, the default)
GroupMapped(c, parent, a) ==
    LET mx == c.parsers[parent].mutually_exclusive_groups
        listing == {i \in 1..Len(mx) : <<"A", a>> \in Range(c.groups[mx[i]].group_actions)}
    IN  IF listing # {} THEN <<"M", CHOOSE i \in listing : \A j \in listing : j <= i>>
        ELSE IF a \in Range(c.parsers[parent].optionals) THEN <<"T", "optionals">>
        ELSE IF a \in Range(c.parsers[parent].positionals) THEN <<"T", "positionals">>
        ELSE <<"S">>

\* for group in container._mutually_exclusive_groups: self.add_mutually_exclusive_group(...)
RECURSIVE CopyMutexGroups(_, _, _)
CopyMutexGroups(c, self, mx) ==
    IF mx = <<>> THEN c
    ELSE CopyMutexGroups(add_mutually_exclusive_group(c, self, c.groups[Head(mx)].required),
                         self, Tail(mx))

\* group_map.get(action, self)._add_action(action)
MappedAdd(c, self, patched, a, mapped, first_new_group) ==
    CASE mapped[1] = "M" -> nesting_add_action(c, first_new_group + mapped[2] - 1, patched, a)
      [] mapped[1] = "T" -> group_add_action(c, Container(self, mapped[2]), patched, a)
      [] mapped[1] = "S" -> parser_add_action(c, self, patched, a)

RECURSIVE AddParentActions(_, _, _, _, _, _, _)
AddParentActions(c, self, parent, patched, actions, map, first_new_group) ==
    IF actions = <<>> THEN Done(c, None)
    ELSE LET a == Head(actions)
             c1 == IF patched /\ c.acts[a].containers = None
                   THEN [c EXCEPT !.acts[a].containers =
                                      Some(<<<<parent, c.acts[a].container[1]>>>>)]
                   ELSE c
             Added(r) ==
                 IF r.err # None THEN r
                 ELSE AddParentActions(
                          IF patched
                          THEN [r.c EXCEPT !.acts[a].containers =
                                    Some(Append(@[1], <<self, r.c.acts[a].container[1]>>))]
                          ELSE r.c,
                          self, parent, patched, Tail(actions), map, first_new_group)
         IN  Added(MappedAdd(c1, self, patched, a, map[a], first_new_group))

add_container_actions(c, self, patched, parent) ==
    LET map == [a \in Range(c.parsers[parent].actions) |-> GroupMapped(c, parent, a)]
        c1 == CopyMutexGroups(c, self, c.parsers[parent].mutually_exclusive_groups)
    IN  AddParentActions(c1, self, parent, patched, c.parsers[parent].actions, map,
                         Len(c.groups) + 1)

(***************************************************************************)
(* add_argument: the Action is made from the keyword arguments and added.  *)
(* kw is [action, nargs, const, default, type, choices, required, dest];   *)
(* default, required and dest are None when the keyword is not given.      *)
(***************************************************************************)
KW(action, nargs) ==
    [action |-> action, nargs |-> nargs, const |-> VNone, default |-> None, type |-> "None",
     choices |-> None, required |-> None, dest |-> None]

\* str.lstrip(prefix_chars)
RECURSIVE lstrip(_)
lstrip(string) ==
    IF string # <<>> /\ Head(string) \in prefix_chars THEN lstrip(Tail(string)) ELSE string

\* str.replace('-', '_')
Underscored(string) == [i \in 1..Len(string) |-> IF string[i] = "-" THEN "_" ELSE string[i]]

IsPositionalCall(args) ==
    args = <<>> \/ (Len(args) = 1 /\ args[1][1] \notin prefix_chars)

\* _get_optional_kwargs: the dest is inferred from the first long option
\* string, else from the first option string
InferredDest(args) ==
    LET long == SelectSeq(args, LAMBDA o : Len(o) > 1 /\ o[2] \in prefix_chars)
    IN  Underscored(lstrip(IF long # <<>> THEN long[1] ELSE args[1]))

\* the Action object the class of kw.action constructs
NewAction(args, kw) ==
    LET positional == IsPositionalCall(args)
        flag == kw.action \in {"store_true", "count", "help"}
        given == IF kw.default # None THEN kw.default[1] ELSE VNone
    IN  [option_strings |-> IF positional THEN <<>> ELSE args,
         dest |-> IF positional THEN Underscored(args[1])
                  ELSE IF kw.dest # None THEN kw.dest[1] ELSE InferredDest(args),
         nargs |-> IF flag THEN NInt(0) ELSE kw.nargs,
         kind |-> IF kw.action = "store_true" THEN "store_const" ELSE kw.action,
         const |-> IF kw.action = "store_true" THEN VBool(TRUE) ELSE kw.const,
         default |-> IF kw.action = "store_true" /\ kw.default = None THEN VBool(FALSE)
                     ELSE given,
         type |-> kw.type,
         choices |-> kw.choices,
         required |-> IF positional THEN kw.nargs \notin {OPTIONAL, ZERO_OR_MORE}
                      ELSE IF kw.required # None THEN kw.required[1] ELSE FALSE,
         container |-> None,
         containers |-> None,
         name_parser_map |-> <<>>]

\* what add_argument and the Action classes reject before the add
ArgumentFault(args, kw) ==
    IF IsPositionalCall(args) /\ kw.required # None THEN Some(Err("TypeError", 0, <<>>))
    ELSE IF ~IsPositionalCall(args) /\ kw.dest = None /\ lstrip(InferredDest(args)) = <<>>
    THEN Some(Err("ValueError", 0, <<>>))
    ELSE IF kw.action \in {"store", "append"} /\ kw.nargs = NInt(0)
    THEN Some(Err("ValueError", 0, <<>>))
    ELSE IF kw.action = "store" /\ kw.const # VNone /\ kw.nargs # OPTIONAL
    THEN Some(Err("ValueError", 0, <<>>))
    ELSE IF is_mnrep(kw.nargs) /\ kw.nargs.m > kw.nargs.n
    THEN Some(Err("ValueError", 0, <<>>))
    ELSE None

add_argument(c, owner, patched, args, kw) ==
    LET a == Len(c.acts) + 1
        c1 == [c EXCEPT !.acts = Append(@, NewAction(args, kw))]
    IN  IF ArgumentFault(args, kw) # None THEN Done(c, ArgumentFault(args, kw))
        ELSE IF owner[1] = "P" THEN parser_add_action(c1, owner[2], patched, a)
        ELSE nesting_add_action(c1, owner[2], patched, a)

\* _NestingGroup.add_argument(action): an existing Action joins the group only
add_existing_argument(c, g, a) == [c EXCEPT !.groups[g].group_actions = Append(@, <<"A", a>>)]

(***************************************************************************)
(* ArgumentParser.__init__: the help argument, then the actions of the     *)
(* parents.  _get_handler rejects a policy that has no handler method.     *)
(***************************************************************************)
RECURSIVE AddParents(_, _, _, _)
AddParents(c, self, patched, parents) ==
    LET Added(r) == IF r.err # None THEN r ELSE AddParents(r.c, self, patched, Tail(parents))
    IN  IF parents = <<>> THEN Done(c, None)
        ELSE Added(add_container_actions(c, self, patched, Head(parents)))

tHelpShort == <<"-", "h">>
tHelpLong == <<"-", "-", "h", "e", "l", "p">>

ArgumentParser(c, patched, conflict_handler, add_help, parents) ==
    LET p == Len(c.parsers) + 1
        c1 == [c EXCEPT !.parsers = Append(@, NewParserRecord(conflict_handler))]
        helped == add_argument(c1, <<"P", p>>, patched, <<tHelpShort, tHelpLong>>,
                               [KW("help", NInt(0)) EXCEPT !.default = Some(VSuppress)])
    IN  IF conflict_handler = "parent" /\ ~patched
        THEN Done(c, Some(Err("ValueError", 0, <<>>)))
        ELSE AddParents(IF add_help THEN helped.c ELSE c1, p, patched, parents)

\* _SubParsersAction.__init__
SubParsersAction(dest) ==
    [option_strings |-> <<>>, dest |-> dest, nargs |-> PARSER, kind |-> "parsers",
     const |-> VNone, default |-> VNone, type |-> "None", choices |-> None,
     required |-> TRUE, container |-> None, containers |-> None, name_parser_map |-> <<>>]

(***************************************************************************)
(* add_subparsers and _SubParsersAction.add_parser                         *)
(***************************************************************************)
add_subparsers(c, p, patched, dest) ==
    LET a == Len(c.acts) + 1
        c1 == [c EXCEPT !.acts = Append(@, SubParsersAction(dest))]
    IN  group_add_action(c1, Container(p, "positionals"), patched, a)

add_parser(c, a, patched, name, conflict_handler, add_help, parents) ==
    LET Mapped(r) ==
            IF r.err # None THEN r
            ELSE Done([r.c EXCEPT !.acts[a].name_parser_map =
                           DictSet(@, name, Len(r.c.parsers))], None)
    IN  Mapped(ArgumentParser(c, patched, conflict_handler, add_help, parents))

(***************************************************************************)
(* The parsers that are parsed with, each built by the configuration       *)
(* methods above, and the strings their command lines are made of.         *)
(***************************************************************************)
tA == <<"-", "a">>
tB == <<"-", "b">>
tAB == <<"-", "a", "b">>
tBA == <<"-", "b", "a">>
tZ == <<"-", "z">>
tFoo == <<"-", "-", "f", "o", "o">>
tFoobar == <<"-", "-", "f", "o", "o", "b", "a", "r">>
tFo == <<"-", "-", "f", "o">>
tF == <<"-", "f">>
tItems == <<"-", "-", "i", "t", "e", "m", "s">>
tTail == <<"t", "a", "i", "l">>
tCmd == <<"c", "m", "d">>
tX == <<"x">>
t1 == <<"1">>
t2 == <<"2">>
t3 == <<"3">>

\* parser = ArgumentParser(add_help=False)
NewParser == [EmptyConfig EXCEPT !.parsers = <<NewParserRecord("error")>>]

Configured(c, tokens) == [c |-> c, tokens |-> tokens]

\* a group of the kind on the parser, with the flags -a and -b in the given order
GroupConfig(kind, required, first, second) ==
    LET c1 == IF kind = "mxg" THEN add_mutually_exclusive_group(NewParser, 1, required)
              ELSE add_nested_group(NewParser, <<"P", 1>>, kind, required)
        c2 == add_argument(c1, <<"G", 1>>, FALSE, <<first>>, KW("store_true", NNone)).c
        c3 == add_argument(c2, <<"G", 1>>, FALSE, <<second>>, KW("store_true", NNone)).c
    IN  Configured(c3, {tA, tB})

\* one argument foo or --foo with the nargs, and nothing else
NargsConfig(nargs, optional) ==
    IF optional
    THEN Configured(add_argument(NewParser, <<"P", 1>>, FALSE, <<tFoo>>, KW("store", nargs)).c,
                    {tFoo, tX})
    ELSE Configured(add_argument(NewParser, <<"P", 1>>, FALSE, <<<<"f", "o", "o">>>>,
                                 KW("store", nargs)).c,
                    {tX})

\* add_argument('--items', nargs='+'); add_argument('tail', nargs='?')
ItemsConfig ==
    LET c1 == add_argument(NewParser, <<"P", 1>>, FALSE, <<tItems>>, KW("store", ONE_OR_MORE)).c
        c2 == add_argument(c1, <<"P", 1>>, FALSE, <<tTail>>, KW("store", OPTIONAL)).c
    IN  Configured(c2, {tItems, t1, t2, t3, tX})

\* the flags --foo and --foobar, and a positional that may be left out
AbbrevConfig ==
    LET c1 == add_argument(NewParser, <<"P", 1>>, FALSE, <<tFoo>>, KW("store_true", NNone)).c
        c2 == add_argument(c1, <<"P", 1>>, FALSE, <<tFoobar>>, KW("store_true", NNone)).c
        c3 == add_argument(c2, <<"P", 1>>, FALSE, <<tTail>>, KW("store", OPTIONAL)).c
    IN  Configured(c3, {tFo, DashDash, tFoo, tX})

\* the flags -a and -b
FlagsConfig ==
    LET c1 == add_argument(NewParser, <<"P", 1>>, FALSE, <<tA>>, KW("store_true", NNone)).c
        c2 == add_argument(c1, <<"P", 1>>, FALSE, <<tB>>, KW("store_true", NNone)).c
    IN  Configured(c2, {tAB, tBA, tA, tX})

\* sp = parser.add_subparsers(); sp.add_parser('cmd').add_argument('-a', ...)
SubCommandConfig ==
    LET c1 == add_subparsers(NewParser, 1, FALSE, SUPPRESS_DEST).c
        c2 == add_parser(c1, 1, FALSE, tCmd, "error", FALSE, <<>>).c
        c3 == add_argument(c2, <<"P", 2>>, FALSE, <<tA>>, KW("store_true", NNone)).c
    IN  Configured(c3, {tCmd, tA, tZ, tX})

ExactNargs == {NInt(1), NInt(2), NRange(2, 2)}
RangeNargs == {NRange(1, 2), NRange(0, 2), NRange(2, Unbounded)}

Configs ==
    {GroupConfig(kind, required, tA, tB) : kind \in {"mxg", "inc"}, required \in BOOLEAN}
    \cup {GroupConfig(kind, required, tB, tA) : kind \in {"mxg", "inc"}, required \in BOOLEAN}
    \cup {NargsConfig(nargs, optional) : nargs \in ExactNargs \cup RangeNargs,
                                         optional \in BOOLEAN}
    \cup {ItemsConfig, AbbrevConfig, FlagsConfig, SubCommandConfig}

\* the sequences over S of length at most n
SeqsUpTo(S, n) == UNION {[1..k -> S] : k \in 0..n}

Idle == [op |-> "", self |-> 0, conflicts |-> <<>>, err |-> None]

(***************************************************************************)
(* Parsing: one call of parse_args or parse_known_args of the parser 1 of  *)
(* a configuration, on a command line of at most MaxArgs strings.          *)
(***************************************************************************)
Init ==
    /\ \E cfg \in Configs :
          /\ acts = cfg.c.acts
          /\ parsers = cfg.c.parsers
          /\ groups = cfg.c.groups
          /\ argv \in SeqsUpTo(cfg.tokens, MaxArgs)
    /\ sample3 = FALSE
    /\ last = Idle
    /\ entry \in {"parse_args", "parse_known_args"}
    /\ stack = <<Frame(1, argv)>>
    /\ namespace = <<>>
    /\ result = Result("running", NoErr, 0, <<>>)

Next ==
    \/ ParseKnownArgsEnter
    \/ Classify
    \/ BeginPasses
    \/ LoopStep
    \/ LoopTail
    \/ PassEnd
    \/ TakeAction
    \/ RequiredCheck
    \/ CrossTest
    \/ ParseKnownArgsReturn
    \/ ParseArgsReturn

Spec == Init /\ [][Next]_vars

(***************************************************************************)
(* Parsing with parsers that have several positionals and an option of     *)
(* variable arity: the matching of the positionals around the options      *)
(* (consume_positionals) and the sharing of the strings after an option    *)
(* with the positionals still to come (consume_optional, the test loops).  *)
(***************************************************************************)
tP == <<"p">>
tQ == <<"q">>
tR == <<"r">>

\* owner.add_argument(*args, **kw) for each call <<owner, args, kw>> of the list
RECURSIVE AddArguments(_, _)
AddArguments(c, calls) ==
    IF calls = <<>> THEN c
    ELSE AddArguments(add_argument(c, Head(calls)[1], FALSE, Head(calls)[2], Head(calls)[3]).c,
                      Tail(calls))

\* g = parser.add_nested_group(kind='any'); g.add_argument('-a', action='store_true');
\* then the positionals p, q and r with the nargs given
PositionalsConfig(np, nq, nr) ==
    Configured(AddArguments(add_nested_group(NewParser, <<"P", 1>>, "any", FALSE),
                            << <<<<"G", 1>>, <<tA>>, KW("store_true", NNone)>>,
                               <<<<"P", 1>>, <<tP>>, KW("store", np)>>,
                               <<<<"P", 1>>, <<tQ>>, KW("store", nq)>>,
                               <<<<"P", 1>>, <<tR>>, KW("store", nr)>> >>),
               {tA, tX})

\* the same group and flag, the option --foo and the positionals p and q
SharingConfig(nfoo, np, nq) ==
    Configured(AddArguments(add_nested_group(NewParser, <<"P", 1>>, "any", FALSE),
                            << <<<<"G", 1>>, <<tA>>, KW("store_true", NNone)>>,
                               <<<<"P", 1>>, <<tFoo>>, KW("store", nfoo)>>,
                               <<<<"P", 1>>, <<tP>>, KW("store", np)>>,
                               <<<<"P", 1>>, <<tQ>>, KW("store", nq)>> >>),
               {tFoo, tA, tX})

MatchConfigs ==
    {PositionalsConfig(np, nq, nr) : np \in {NNone, OPTIONAL, ZERO_OR_MORE},
                                     nq \in {NNone, OPTIONAL, ZERO_OR_MORE},
                                     nr \in {NNone, OPTIONAL}}
    \cup {SharingConfig(nfoo, np, nq) : nfoo \in {OPTIONAL, ZERO_OR_MORE, ONE_OR_MORE},
                                        np \in {NNone, OPTIONAL},
                                        nq \in {NNone, OPTIONAL}}

InitMatch ==
    /\ \E cfg \in MatchConfigs :
          /\ acts = cfg.c.acts
          /\ parsers = cfg.c.parsers
          /\ groups = cfg.c.groups
          /\ argv \in SeqsUpTo(cfg.tokens, MaxArgs)
    /\ sample3 = FALSE
    /\ last = Idle
    /\ entry \in {"parse_args", "parse_known_args"}
    /\ stack = <<Frame(1, argv)>>
    /\ namespace = <<>>
    /\ result = Result("running", NoErr, 0, <<>>)

SpecMatch == InitMatch /\ [][Next]_vars

(***************************************************************************)
(* Parsing with parsers whose arguments have a type, choices or a string   *)
(* default, and with a parser that has a positional before its             *)
(* sub-commands: what becomes of the strings after '--', and when values   *)
(* and defaults are converted and checked.                                 *)
(***************************************************************************)
tY == <<"y">>

\* type=int, choices=[1, 2]
IntChoices(kw) == [kw EXCEPT !.type = "int", !.choices = Some({VInt(1), VInt(2)})]

\* type=int, default=string (no default when string is None)
IntDefault(kw, string) ==
    [kw EXCEPT !.type = "int",
               !.default = IF string = None THEN None ELSE Some(VStr(string[1]))]

\* the flag -a in a group of kind any, and the argument p or --foo with
\* type=int and choices=[1, 2]
ChoicesConfig(nargs, optional) ==
    Configured(AddArguments(add_nested_group(NewParser, <<"P", 1>>, "any", FALSE),
                            << <<<<"G", 1>>, <<tA>>, KW("store_true", NNone)>>,
                               <<<<"P", 1>>, IF optional THEN <<tFoo>> ELSE <<tP>>,
                                 IntChoices(KW("store", nargs))>> >>),
               IF optional THEN {tFoo, t1, t3, tX} ELSE {t1, t3, tX})

\* add_argument('p', nargs='?', type=int, default=...); add_argument('q', type=int);
\* add_argument('--foo', type=int, default=...)
DefaultsConfig(pdefault, foodefault) ==
    Configured(AddArguments(NewParser,
                            << <<<<"P", 1>>, <<tP>>, IntDefault(KW("store", OPTIONAL), pdefault)>>,
                               <<<<"P", 1>>, <<tQ>>, IntDefault(KW("store", NNone), None)>>,
                               <<<<"P", 1>>, <<tFoo>>, IntDefault(KW("store", NNone), foodefault)>> >>),
               {tFoo, t1, tX})

\* add_argument('p'); sp = add_subparsers(); c = sp.add_parser('cmd');
\* c.add_argument('--foo', action='store_true'); c.add_argument('--foobar', ...)
SeparatorConfig ==
    LET c1 == add_argument(NewParser, <<"P", 1>>, FALSE, <<tP>>, KW("store", NNone)).c
        c2 == add_subparsers(c1, 1, FALSE, SUPPRESS_DEST).c
        c3 == add_parser(c2, 2, FALSE, tCmd, "error", FALSE, <<>>).c
    IN  Configured(AddArguments(c3, << <<<<"P", 2>>, <<tFoo>>, KW("store_true", NNone)>>,
                                       <<<<"P", 2>>, <<tFoobar>>, KW("store_true", NNone)>> >>),
                   {DashDash, tCmd, tFoo, tFo})

ValueConfigs ==
    {ChoicesConfig(nargs, FALSE) :
         nargs \in {NNone, OPTIONAL, ZERO_OR_MORE, ONE_OR_MORE, NInt(2), NRange(1, 2),
                    REMAINDER, PARSER}}
    \cup {ChoicesConfig(nargs, TRUE) : nargs \in {NNone, ZERO_OR_MORE, REMAINDER}}
    \cup {DefaultsConfig(pdefault, foodefault) :
              pdefault \in {None, Some(t1), Some(tY)}, foodefault \in {Some(t1), Some(tY)}}
    \cup {SeparatorConfig}

InitValues ==
    /\ \E cfg \in ValueConfigs :
          /\ acts = cfg.c.acts
          /\ parsers = cfg.c.parsers
          /\ groups = cfg.c.groups
          /\ argv \in SeqsUpTo(cfg.tokens, MaxArgs)
    /\ sample3 = FALSE
    /\ last = Idle
    /\ entry \in {"parse_args", "parse_known_args"}
    /\ stack = <<Frame(1, argv)>>
    /\ namespace = <<>>
    /\ result = Result("running", NoErr, 0, <<>>)

SpecValues == InitValues /\ [][Next]_vars

(***************************************************************************)
(* Parsing with parsers that have nested groups, a group of a kind the     *)
(* group class has no test for, or tests registered by the caller.         *)
(***************************************************************************)
tC == <<"-", "c">>

\* tests a configuration registers with the parser, at most
MaxTests == 2

\* g1 = parser.add_nested_group(kind=k1, required=r1); g1.add_argument('-a', ...);
\* g2 = g1.add_nested_group(kind=k2, required=r2); g2.add_argument('-b', ...);
\* g2.add_argument('-c', ...)
NestedConfig(k1, r1, k2, r2) ==
    Configured(AddArguments(add_nested_group(
                                add_nested_group(NewParser, <<"P", 1>>, k1, r1),
                                <<"G", 1>>, k2, r2),
                            << <<<<"G", 1>>, <<tA>>, KW("store_true", NNone)>>,
                               <<<<"G", 2>>, <<tB>>, KW("store_true", NNone)>>,
                               <<<<"G", 2>>, <<tC>>, KW("store_true", NNone)>> >>),
               {tA, tB, tC})

\* g1 = parser.add_nested_group(kind=kind); g2 = g1.add_nested_group(kind='inc');
\* g2.add_argument('-a', ...); g2.add_argument('-b', ...): a group of a kind
\* that has no test, 'not' too
UntestedConfig(kind, required) ==
    Configured(AddArguments(add_nested_group(
                                add_nested_group(NewParser, <<"P", 1>>, kind, required),
                                <<"G", 1>>, "inc", FALSE),
                            << <<<<"G", 2>>, <<tA>>, KW("store_true", NNone)>>,
                               <<<<"G", 2>>, <<tB>>, KW("store_true", NNone)>> >>),
               {tA, tB})

\* as foo2 of src/issue25626109.py has it: a usage group of the kind 'not'
\* on the parser, holding an inclusive group of -a and -b
NegatedConfig(required, r2) ==
    Configured(AddArguments(add_nested_group(
                                add_usage_group(NewParser, <<"P", 1>>, "not", required),
                                <<"G", 1>>, "inc", r2),
                            << <<<<"G", 2>>, <<tA>>, KW("store_true", NNone)>>,
                               <<<<"G", 2>>, <<tB>>, KW("store_true", NNone)>> >>),
               {tA, tB})

\* a group of the kind k1 on the parser with -c and a usage group of the kind
\* 'not', which holds an inclusive group of -a and -b
NestedNegatedConfig(k1, r1) ==
    Configured(AddArguments(add_nested_group(
                                add_usage_group(
                                    add_nested_group(NewParser, <<"P", 1>>, k1, r1),
                                    <<"G", 1>>, "not", FALSE),
                                <<"G", 2>>, "inc", FALSE),
                            << <<<<"G", 1>>, <<tC>>, KW("store_true", NNone)>>,
                               <<<<"G", 3>>, <<tA>>, KW("store_true", NNone)>>,
                               <<<<"G", 3>>, <<tB>>, KW("store_true", NNone)>> >>),
               {tA, tB, tC})

\* the functions of the caller: two that are both named 'test', as the one
\* of src/issue10984_sharma.py, and one named 'check'; the action each rejects
TestA == UserTest("test_a", 1)
TestB == UserTest("test_b", 2)
CheckB == UserTest("check_b", 2)
FuncName(func) == IF func = CheckB THEN "check" ELSE "test"

\* what a configuration may register: a function, or <<"group">>, for
\* g = parser.add_mutually_exclusive_group(); g.add_argument(a); g.add_argument(b)
\* with the actions a and b of the parser
Registrations == {TestA, TestB, CheckB, <<"group">>}

RECURSIVE Registered(_, _)
Registered(c, regs) ==
    IF regs = <<>> THEN c
    ELSE Registered(
             IF Head(regs) = <<"group">>
             THEN LET g == Len(c.groups) + 1
                  IN  add_existing_argument(
                          add_existing_argument(
                              add_mutually_exclusive_group(c, 1, FALSE), g, 1), g, 2)
             ELSE crosstest(c, 1, FuncName(Head(regs)), Head(regs)),
             Tail(regs))

\* the flags -a and -b, then the registrations
RegistrationConfig(regs) ==
    Configured(Registered(AddArguments(NewParser,
                              << <<<<"P", 1>>, <<tA>>, KW("store_true", NNone)>>,
                                 <<<<"P", 1>>, <<tB>>, KW("store_true", NNone)>> >>),
                          regs),
               {tA, tB})

Injective(s) == \A i, j \in 1..Len(s) : s[i] = s[j] /\ s[i] # <<"group">> => i = j

GroupKinds == {"mxg", "inc", "any"}

GroupConfigs ==
    {NestedConfig(k1, r1, k2, r2) : k1 \in GroupKinds, r1 \in BOOLEAN,
                                    k2 \in GroupKinds, r2 \in BOOLEAN}
    \cup {UntestedConfig(kind, required) : kind \in {"not", "None"}, required \in BOOLEAN}
    \cup {NegatedConfig(required, r2) : required \in BOOLEAN, r2 \in BOOLEAN}
    \cup {NestedNegatedConfig(k1, r1) : k1 \in GroupKinds, r1 \in BOOLEAN}
    \cup {RegistrationConfig(regs) : regs \in {s \in SeqsUpTo(Registrations, MaxTests) :
                                                   Injective(s)}}

InitGroups ==
    /\ \E cfg \in GroupConfigs :
          /\ acts = cfg.c.acts
          /\ parsers = cfg.c.parsers
          /\ groups = cfg.c.groups
          /\ argv \in SeqsUpTo(cfg.tokens, MaxArgs)
    /\ sample3 = FALSE
    /\ last = Idle
    /\ entry \in {"parse_args", "parse_known_args"}
    /\ stack = <<Frame(1, argv)>>
    /\ namespace = <<>>
    /\ result = Result("running", NoErr, 0, <<>>)

SpecGroups == InitGroups /\ [][Next]_vars

(***************************************************************************)
(* Parsing into a namespace the caller has made: parse_args(argv,          *)
(* namespace=Namespace(seed=k, ...)).  The attribute seed, which no action *)
(* has as its dest, tells which of the namespaces was passed.              *)
(***************************************************************************)
tSeed == <<"s", "e", "e", "d">>

\* Namespace(seed=1) and Namespace(seed=2, a='x'), a being the dest of -a
SeededNamespaces ==
    << <<<<tSeed, VInt(1)>>>>,
       <<<<tSeed, VInt(2)>>, <<<<"a">>, VStr(tX)>>>> >>

SeededConfigs ==
    {GroupConfig(kind, required, tA, tB) : kind \in {"mxg", "inc"}, required \in BOOLEAN}
    \cup {FlagsConfig, SubCommandConfig}

InitSeeded ==
    /\ \E cfg \in SeededConfigs :
          /\ acts = cfg.c.acts
          /\ parsers = cfg.c.parsers
          /\ groups = cfg.c.groups
          /\ argv \in SeqsUpTo(cfg.tokens, MaxArgs)
    /\ sample3 = FALSE
    /\ last = Idle
    /\ entry \in {"parse_args", "parse_known_args"}
    /\ stack = <<Frame(1, argv)>>
    /\ namespace \in Range(SeededNamespaces)
    /\ result = Result("running", NoErr, 0, <<>>)

SpecSeeded == InitSeeded /\ [][Next]_vars

(***************************************************************************)
(* A parse as a program that runs on: it takes its next step as long as it *)
(* has one.  The parsers are those with clusters of flags, with a          *)
(* sub-command, and with an option of variable nargs before positionals.   *)
(***************************************************************************)
\* the strings on the command line of a parse that runs on
MaxRunArgs == 4

RunConfigs ==
    {FlagsConfig, SubCommandConfig}
    \cup {SharingConfig(nfoo, np, OPTIONAL) : nfoo \in {ZERO_OR_MORE, ONE_OR_MORE},
                                              np \in {NNone, OPTIONAL}}

InitRun ==
    /\ \E cfg \in RunConfigs :
          /\ acts = cfg.c.acts
          /\ parsers = cfg.c.parsers
          /\ groups = cfg.c.groups
          /\ argv \in SeqsUpTo(cfg.tokens, MaxRunArgs)
    /\ sample3 = FALSE
    /\ last = Idle
    /\ entry \in {"parse_args", "parse_known_args"}
    /\ stack = <<Frame(1, argv)>>
    /\ namespace = <<>>
    /\ result = Result("running", NoErr, 0, <<>>)

SpecRun == InitRun /\ [][Next]_vars /\ WF_vars(Next)

(***************************************************************************)
(* Parsers with a nargs that asks for a least number of strings: an option *)
(* --foo of nargs '+' or '{m,n}' before positionals, and a positional of   *)
(* nargs '{m,n}' on command lines with the separator '--'.                 *)
(***************************************************************************)
\* g = parser.add_nested_group(kind='any'); g.add_argument('-a', action='store_true');
\* parser.add_argument('p', nargs='{m,n}'); parser.add_argument('q', nargs=nq)
SeparatedConfig(np, nq) ==
    Configured(AddArguments(add_nested_group(NewParser, <<"P", 1>>, "any", FALSE),
                            << <<<<"G", 1>>, <<tA>>, KW("store_true", NNone)>>,
                               <<<<"P", 1>>, <<tP>>, KW("store", np)>>,
                               <<<<"P", 1>>, <<tQ>>, KW("store", nq)>> >>),
               {DashDash, tA, tX})

LeastConfigs ==
    {SharingConfig(nfoo, np, OPTIONAL) : nfoo \in {ONE_OR_MORE, NRange(1, 2), NRange(2, 3)},
                                         np \in {NNone, OPTIONAL}}
    \cup {SeparatedConfig(np, OPTIONAL) : np \in {NRange(1, 2), NRange(2, 3), NRange(0, 1)}}

InitLeast ==
    /\ \E cfg \in LeastConfigs :
          /\ acts = cfg.c.acts
          /\ parsers = cfg.c.parsers
          /\ groups = cfg.c.groups
          /\ argv \in SeqsUpTo(cfg.tokens, MaxArgs)
    /\ sample3 = FALSE
    /\ last = Idle
    /\ entry \in {"parse_args", "parse_known_args"}
    /\ stack = <<Frame(1, argv)>>
    /\ namespace = <<>>
    /\ result = Result("running", NoErr, 0, <<>>)

SpecLeast == InitLeast /\ [][Next]_vars

(***************************************************************************)
(* A parser made from a parent that has a group: parser 1 has a group of   *)
(* the flags -a and -b on it, parser 2 is ArgumentParser(parents=[parser   *)
(* 1]); either of them parses the command line.                            *)
(***************************************************************************)
InheritConfig(kind, required) ==
    Configured(ArgumentParser(GroupConfig(kind, required, tA, tB).c,
                              FALSE, "error", FALSE, <<1>>).c,
               {tA, tB})

InheritConfigs == {InheritConfig(kind, required) : kind \in GroupKinds, required \in BOOLEAN}

InitInherit ==
    /\ \E cfg \in InheritConfigs :
          /\ acts = cfg.c.acts
          /\ parsers = cfg.c.parsers
          /\ groups = cfg.c.groups
          /\ argv \in SeqsUpTo(cfg.tokens, MaxArgs)
    /\ sample3 = FALSE
    /\ last = Idle
    /\ entry \in {"parse_args", "parse_known_args"}
    /\ \E p \in {1, 2} : stack = <<Frame(p, argv)>>
    /\ namespace = <<>>
    /\ result = Result("running", NoErr, 0, <<>>)

SpecInherit == InitInherit /\ [][Next]_vars

(***************************************************************************)
(* Configuration: parsers are created, with the parsers made before as     *)
(* parents, and options are added to them, with src/sample3.py imported    *)
(* or not.  An exception is not caught: no call follows one that raised.   *)
(***************************************************************************)
Handlers == {"error", "resolve", "parent"}

OptionStrings == {<<tF>>, <<tFoo>>, <<tF, tFoo>>}

\* parents=[...]: at most two of the parsers made so far, each at most once
ParentLists ==
    {parents \in SeqsUpTo(1..Len(parsers), 2) :
        \A i, j \in 1..Len(parents) : i # j => parents[i] # parents[j]}

Config == [acts |-> acts, parsers |-> parsers, groups |-> groups]

Called(r, op, self, conflicts) ==
    /\ acts' = r.c.acts
    /\ parsers' = r.c.parsers
    /\ groups' = r.c.groups
    /\ last' = [op |-> op, self |-> self, conflicts |-> conflicts, err |-> r.err]
    /\ UNCHANGED <<sample3, entry, argv, stack, namespace, result>>

InitConf ==
    /\ acts = <<>>
    /\ parsers = <<>>
    /\ groups = <<>>
    /\ sample3 \in BOOLEAN
    /\ last = Idle
    /\ entry = ""
    /\ argv = <<>>
    /\ stack = <<>>
    /\ namespace = <<>>
    /\ result = Result("idle", NoErr, 0, <<>>)

\* ArgumentParser(add_help=False, conflict_handler=..., parents=[...])
NewArgumentParser ==
    /\ last.err = None
    /\ Len(parsers) < MaxParsers
    /\ \E conflict_handler \in Handlers, parents \in ParentLists :
          Called(ArgumentParser(Config, sample3, conflict_handler, FALSE, parents),
                 "ArgumentParser", Len(parsers) + 1, <<>>)

\* parser.add_argument(*option_strings)
AddArgument ==
    /\ last.err = None
    /\ Len(acts) < MaxActions
    /\ \E p \in 1..Len(parsers), args \in OptionStrings :
          Called(add_argument(Config, <<"P", p>>, sample3, args, KW("store", NNone)),
                 "add_argument", p,
                 confl_optionals([Config EXCEPT !.acts = Append(@, NewAction(args, KW("store", NNone)))],
                                 Container(p, "optionals"), Len(acts) + 1))

NextConf == NewArgumentParser \/ AddArgument

SpecConf == InitConf /\ [][NextConf]_vars

(***************************************************************************)
(* Properties of a parse call (specification Spec).                        *)
(***************************************************************************)
Finished == result.status # "running"
Failed == result.status = "error"
Succeeded == result.status = "ok"
FailedWith(kind) == Failed /\ result.err.kind = kind

\* the string is one of the command line
Supplied(string) == string \in Range(argv)

\* the parser has one group, of the kind, holding the flags -a and -b
GroupParser(kind) ==
    /\ Len(groups) = 1
    /\ groups[1].kind = kind
    /\ Len(groups[1].group_actions) = 2

\* C1: with an exclusive group {-a, -b}, a parse in which both flags are seen
\* fails (only one is allowed), in either order of declaration and of supply;
\* a parse in which neither is seen fails exactly when the group is required;
\* a parse in which exactly one is seen succeeds.
C1_ExclusiveGroup ==
    (GroupParser("mxg") /\ Finished) =>
        /\ (Supplied(tA) /\ Supplied(tB)) => FailedWith("only one the arguments is allowed")
        /\ (~Supplied(tA) /\ ~Supplied(tB)) =>
              /\ Failed <=> groups[1].required
              /\ Failed => FailedWith("one of the arguments is required")
        /\ (Supplied(tA) # Supplied(tB)) => Succeeded

\* -b was declared first, -a is supplied first, and the parse failed
C1_Witness ==
    /\ GroupParser("mxg")
    /\ acts[1].option_strings = <<tB>>
    /\ argv = <<tA, tB>>
    /\ FailedWith("only one the arguments is allowed")

\* C2: with an inclusive group {-a, -b}, a parse in which exactly one flag
\* is seen fails; a parse in which both are seen succeeds; a parse in which
\* neither is seen succeeds when the group is not required and fails when it is.
C2_InclusiveGroup ==
    (GroupParser("inc") /\ Finished) =>
        /\ (Supplied(tA) # Supplied(tB)) => FailedWith("all of the arguments are required")
        /\ (Supplied(tA) /\ Supplied(tB)) => Succeeded
        /\ (~Supplied(tA) /\ ~Supplied(tB)) =>
              IF groups[1].required THEN FailedWith("all of the arguments is required")
              ELSE Succeeded

\* only -b of a group that is not required is supplied, and the parse failed
C2_Witness ==
    /\ GroupParser("inc")
    /\ ~groups[1].required
    /\ argv = <<tB>>
    /\ FailedWith("all of the arguments are required")

\* the parser has the one argument foo / --foo, with a nargs of the set
OneArgumentParser(nargsSet) ==
    /\ Len(acts) = 1
    /\ acts[1].dest = <<"f", "o", "o">>
    /\ acts[1].nargs \in nargsSet

\* the command line gives the one argument exactly c values
ValuesSupplied(c) ==
    argv = (IF acts[1].option_strings # <<>> THEN <<tFoo>> ELSE <<>>) \o [i \in 1..c |-> tX]

Stored(dest) == DictGet(namespace, dest)

\* C5: for an argument of exact arity n in a parser that has nothing else,
\* parse_args with exactly n values succeeds and stores the n values;
\* parse_args with n-1 values fails, an option with "expected n argument(s)"
\* and a positional with "the following arguments are required"; parse_args
\* with n+1 values fails with "unrecognized arguments", naming the extra one.
C5_ExactArity ==
    (OneArgumentParser(ExactNargs) /\ entry = "parse_args" /\ Finished) =>
        LET n == acts[1].nargs.n
        IN  /\ ValuesSupplied(n) =>
                  /\ Succeeded
                  /\ Stored(acts[1].dest) = VList([i \in 1..n |-> VStr(tX)])
            /\ ValuesSupplied(n - 1) =>
                  IF acts[1].option_strings # <<>> THEN FailedWith("expected arguments")
                  ELSE FailedWith("the following arguments are required")
            /\ ValuesSupplied(n + 1) =>
                  /\ FailedWith("unrecognized arguments")
                  /\ result.err.detail = <<tX>>

\* parse_args(['--foo', 'x', 'x', 'x']) with nargs=2 failed
C5_Witness ==
    /\ OneArgumentParser({NInt(2)})
    /\ entry = "parse_args"
    /\ argv = <<tFoo, tX, tX, tX>>
    /\ FailedWith("unrecognized arguments")

\* C5 as stated: with n-1 or with n+1 values parse_args fails with the
\* count-mismatch error, "expected n argument(s)".
C5_AsStated ==
    (OneArgumentParser(ExactNargs) /\ entry = "parse_args" /\ Finished) =>
        LET n == acts[1].nargs.n
        IN  /\ ValuesSupplied(n) => Succeeded
            /\ (ValuesSupplied(n - 1) \/ ValuesSupplied(n + 1)) =>
                  FailedWith("expected arguments")

C7_ItemsLeaveTail ==
    (/\ Len(acts) = 2
     /\ acts[1].option_strings = <<tItems>>
     /\ argv = <<tItems, t1, t2, t3, tX>>
     /\ Finished)
    => /\ Succeeded
       /\ Stored(acts[1].dest) = VList(<<VStr(t1), VStr(t2), VStr(t3)>>)
       /\ Stored(acts[2].dest) = VStr(tX)

\* the registered long option strings the string is a proper prefix of
LongMatches(string) ==
    {o \in Range(DictKeys(parsers[1].option_string_actions)) :
        /\ Len(o) > 2 /\ o[1] = "-" /\ o[2] = "-"
        /\ startswith(o, string) /\ o # string}

\* argv[i] abbreviates two or more registered long option strings
Abbreviates(i) ==
    /\ Len(argv[i]) > 2
    /\ argv[i][1] = "-" /\ argv[i][2] = "-"
    /\ Cardinality(LongMatches(argv[i])) >= 2

BeforeSeparator(i) == FirstSeparator(argv) = 0 \/ i < FirstSeparator(argv)

FlagsParser ==
    /\ Len(acts) = 2
    /\ groups = <<>>
    /\ acts[1].option_strings = <<tA>>
    /\ acts[2].option_strings = <<tB>>

\* the string the while loop of consume_loop is at
AtString(string) ==
    /\ Running
    /\ Top.pc = "loop"
    /\ Top.pending = <<>>
    /\ Top.start_index < Len(Top.arg_strings)
    /\ Top.arg_strings[Top.start_index + 1] = string

\* the loop has moved by one string and queued the two flags, in the order
ClusterSplit(first, second) ==
    /\ stack'[Len(stack')].start_index = Top.start_index + 1
    /\ stack'[Len(stack')].pending =
          IF Top.no_action THEN <<>>
          ELSE <<TakeItem(first, <<>>, acts[first].option_strings[1]),
                 TakeItem(second, <<>>, acts[second].option_strings[1])>>

\* C9: with the flags -a and -b, the cluster -ab (or -ba) is split one
\* character at a time: the step that consumes it takes exactly that one
\* string and triggers the flags in the order they are written, and a parse
\* of a command line holding a cluster ends with both flags set, every other
\* string it does not know being left over.
C9_ShortFlagCluster ==
    /\ [][FlagsParser =>
            /\ AtString(tAB) => ClusterSplit(1, 2)
            /\ AtString(tBA) => ClusterSplit(2, 1)]_vars
    /\ []((FlagsParser /\ Finished /\ (Supplied(tAB) \/ Supplied(tBA))) =>
            \/ FailedWith("unrecognized arguments") /\ entry = "parse_args" /\ Supplied(tX)
            \/ /\ Succeeded
               /\ Stored(acts[1].dest) = VBool(TRUE)
               /\ Stored(acts[2].dest) = VBool(TRUE)
               /\ result.extras = SelectSeq(argv, LAMBDA string : string = tX))

\* parse_known_args(['x', '-ba']) has returned
C9_Witness ==
    /\ FlagsParser
    /\ argv = <<tX, tBA>>
    /\ Succeeded
    /\ Stored(acts[1].dest) = VBool(TRUE)
    /\ Stored(acts[2].dest) = VBool(TRUE)
    /\ result.extras = <<tX>>

\* the parser has the sub-command cmd, whose parser has the flag -a
SubCommandParser ==
    /\ Len(parsers) = 2
    /\ acts[1].kind = "parsers"
    /\ DictKeys(acts[1].name_parser_map) = <<tCmd>>

\* the place of the first string that is no option
FirstArgument ==
    LET places == {i \in 1..Len(argv) : argv[i] \in {tCmd, tX}}
    IN  IF places = {} THEN 0 ELSE CHOOSE i \in places : \A j \in places : i <= j

\* what no action claims: the options before the sub-command, and the
\* strings after it other than the flag of its parser
Unclaimed ==
    SubSeq(argv, 1, FirstArgument - 1)
    \o SelectSeq(SubSeq(argv, FirstArgument + 1, Len(argv)), LAMBDA string : string # tA)

\* C10: strings that no action claims are never an error of parse_known_args.
\* No parse_known_args call fails with "unrecognized arguments"; that error is
\* raised by parse_args of the top-level parser only.  With a sub-command
\* given, parse_known_args returns the unclaimed strings, those its
\* sub-command parser left over included, and parse_args fails exactly when
\* there are some, naming them; the same holds of the strings a parser of two
\* flags does not know.
C10_LeftoversRejectedByParseArgsOnly ==
    /\ FailedWith("unrecognized arguments") => (entry = "parse_args" /\ result.p = 1)
    /\ (SubCommandParser /\ Finished /\ FirstArgument # 0 /\ argv[FirstArgument] = tCmd) =>
          IF entry = "parse_known_args"
          THEN Succeeded /\ result.extras = Unclaimed
          ELSE IF Unclaimed = <<>> THEN Succeeded
          ELSE FailedWith("unrecognized arguments") /\ result.err.detail = Unclaimed
    /\ (FlagsParser /\ Finished) =>
          LET left == SelectSeq(argv, LAMBDA string : string = tX)
          IN  IF entry = "parse_known_args" \/ left = <<>>
              THEN Succeeded /\ result.extras = left
              ELSE FailedWith("unrecognized arguments") /\ result.err.detail = left

\* parse_args(['cmd', '-a', '-z']): the sub-command parser left -z over
C10_Witness ==
    /\ SubCommandParser
    /\ entry = "parse_args"
    /\ argv = <<tCmd, tA, tZ>>
    /\ FailedWith("unrecognized arguments")
    /\ result.err.detail = <<tZ>>

(***************************************************************************)
(* Properties of configuration (specification SpecConf).                   *)
(***************************************************************************)
\* the parsers action.containers names, in the order recorded
Owners(a) == [i \in 1..Len(acts[a].containers[1]) |-> acts[a].containers[1][i][1]]

\* the action is held by the parser that made it and by two parsers that
\* inherited it, and p is one of the two
SharedWithTwoDescendants(a, p) ==
    /\ acts[a].containers # None
    /\ Len(Owners(a)) = 3
    /\ Cardinality(Range(Owners(a))) = 3
    /\ \A q \in Range(Owners(a)) : a \in Range(parsers[q].actions)
    /\ p \in {Owners(a)[2], Owners(a)[3]}

\* the step is p.add_argument(...) of an option that collides with action a
AddsColliding(p, a) ==
    /\ Len(acts') = Len(acts) + 1
    /\ last'.op = "add_argument"
    /\ last'.self = p
    /\ \E o \in Range(acts'[Len(acts')].option_strings) :
          /\ DictHas(parsers[p].option_string_actions, o)
          /\ DictGet(parsers[p].option_string_actions, o) = a

\* C3: under the "parent" policy of src/sample3.py, when an action is shared
\* by a parent and two descendants that inherited it, adding a colliding
\* option to one descendant removes the action from that descendant only:
\* the action lists and option-string indexes of every other parser, and the
\* option strings of the shared action, are unchanged.
C3_ParentPolicyRemovesFromOneDescendant ==
    [][\A p \in 1..Len(parsers), a \in 1..Len(acts) :
          (/\ sample3
           /\ parsers[p].conflict_handler = "parent"
           /\ SharedWithTwoDescendants(a, p)
           /\ AddsColliding(p, a))
          => /\ last'.err = None
             /\ a \notin Range(parsers'[p].actions)
             /\ acts'[a].option_strings = acts[a].option_strings
             /\ \A q \in 1..Len(parsers) :
                   q # p => /\ parsers'[q].actions = parsers[q].actions
                            /\ parsers'[q].option_string_actions =
                                  parsers[q].option_string_actions]_vars

\* an add_argument to a descendant under the "parent" policy has returned; an
\* action it collided with is still held by parser 1, which made it, and by
\* the other descendant, and no longer by the descendant added to
C3_Witness ==
    /\ sample3
    /\ last.op = "add_argument"
    /\ last.err = None
    /\ last.self # 1
    /\ parsers[last.self].conflict_handler = "parent"
    /\ \E i \in 1..Len(last.conflicts) :
          LET a == last.conflicts[i][2]
          IN  /\ acts[a].containers # None
              /\ Len(Owners(a)) = 2
              /\ Owners(a)[1] = 1
              /\ last.self \notin Range(Owners(a))
              /\ \A q \in Range(Owners(a)) : a \in Range(parsers[q].actions)
              /\ a \notin Range(parsers[last.self].actions)
              /\ acts[a].option_strings # <<>>

\* C4: after any sequence of add_argument and inheritance calls that
\* returned, under every conflict policy, an action that conflict resolution
\* has left with no option strings is in the action list of no parser.
\* (Only options are added, so an action without option strings is one that
\* conflict resolution has stripped.)
C4_StrippedActionHasNoOwner ==
    last.err = None =>
        \A a \in 1..Len(acts), p \in 1..Len(parsers) :
            acts[a].option_strings = <<>> => a \notin Range(parsers[p].actions)

(***************************************************************************)
(* Properties of the matching of positionals and of options of variable    *)
(* arity (SpecMatch).                                                      *)
(***************************************************************************)
\* the nargs patterns of the positionals of the list, joined
NargsPatterns(positionals) ==
    Concat([j \in 1..Len(positionals) |-> get_nargs_pattern(acts[positionals[j]])])

\* the joined pattern of the first k pending positionals matches the symbols
PrefixMatches(positionals, k, symbols) ==
    re_match(NargsPatterns(TakeFirst(positionals, k)), symbols) # NoMatch

\* the length of the longest prefix of the pending positionals that matches
LongestPrefix(positionals, symbols) ==
    CHOOSE k \in 0..Len(positionals) :
        /\ PrefixMatches(positionals, k, symbols)
        /\ \A j \in (k + 1)..Len(positionals) : ~PrefixMatches(positionals, j, symbols)

\* the number of strings each positional of that prefix is matched with
PrefixCounts(positionals, symbols) ==
    LET matched == TakeFirst(positionals, LongestPrefix(positionals, symbols))
    IN  GroupLens([j \in 1..Len(matched) |-> acts[matched[j]]],
                  re_match(NargsPatterns(matched), symbols))

\* of counts, the length without its last elements that are 0
WithoutTrailingZeros(counts) ==
    CHOOSE n \in 0..Len(counts) :
        /\ \A j \in (n + 1)..Len(counts) : counts[j] = 0
        /\ n = 0 \/ counts[n] > 0

\* the next step of the parse runs consume_positionals
PositionalSpan ==
    /\ Running
    /\ Top.pc = "loop"
    /\ Top.pending = <<>>
    /\ \/ Top.start_index > max_option_string_index(Top)
       \/ Top.start_index # next_option_string_index(Top)

\* the symbols from the current position on
SymbolsAhead == DropFirst(Top.arg_strings_pattern, Top.start_index)

\* every frame's pending positionals are a suffix of its parser's positionals
PendingIsSuffix(frames) ==
    \A i \in 1..Len(frames) :
        LET declared == get_positional_actions(frames[i].p)
        IN  \E n \in 0..Len(declared) : frames[i].positionals = DropFirst(declared, n)

\* C11 (as amended): in every positional span the positionals consumed are
\* the longest prefix of the pending queue whose joined nargs pattern matches
\* the symbols at the current position, less the last positionals of that
\* prefix that are matched with no string while an option string remains to
\* the right; they are queued for take_action in the order of the queue, with
\* the strings the match gives each, and the pending queue is at all times a
\* suffix of the positionals the parser declares.
C11_LongestPrefixLessDeferred ==
    [][/\ PendingIsSuffix(stack')
       /\ PositionalSpan =>
             LET counts == PrefixCounts(Top.positionals, SymbolsAhead)
                 n == IF "O" \in Range(SymbolsAhead) THEN WithoutTrailingZeros(counts)
                      ELSE Len(counts)
                 after == stack'[Len(stack')]
                 taken == SelectSeq(after.pending, LAMBDA it : it.k = "take" /\ it.option_string = None)
             IN  /\ after.positionals = DropFirst(Top.positionals, n)
                 /\ ~Top.no_action =>
                       /\ Len(taken) = n
                       /\ \A j \in 1..n : /\ taken[j].action = Top.positionals[j]
                                          /\ Len(taken[j].args) <= counts[j]]_vars

\* a span of the real pass has consumed the first of three pending
\* positionals and left the others pending: the joined pattern of all three
\* did not match, or the others were deferred
C11_Witness ==
    /\ Running
    /\ Top.pc = "loop"
    /\ ~Top.no_action
    /\ Top.pending # <<>>
    /\ Head(Top.pending).option_string = None
    /\ Len(get_positional_actions(Top.p)) = 3
    /\ Len(Top.positionals) = 2

\* C11 as stated: every positional span consumes the longest prefix of the
\* pending queue whose joined pattern matches the symbols at the position.
C11_AsStated ==
    [][PositionalSpan =>
          stack'[Len(stack')].positionals =
              DropFirst(Top.positionals, LongestPrefix(Top.positionals, SymbolsAhead))]_vars

LoopIterates ==
    /\ Running
    /\ Top.pc = "loop"
    /\ Top.pending = <<>>
    /\ Top.start_index <= max_option_string_index(Top)

\* the option tuple of the next option string at or after the position
NextOption == DictGet(Top.option_string_indices, next_option_string_index(Top))

\* the symbols after that option string
AfterNextOption == DropFirst(Top.arg_strings_pattern, next_option_string_index(Top) + 1)

\* the iteration has consumed that option string: it is an option of variable
\* nargs, without explicit argument, whose own pattern matches what follows
VariableOptionConsumed ==
    /\ LoopIterates
    /\ stack'[Len(stack')].start_index > next_option_string_index(Top)
    /\ NextOption.action # 0
    /\ NextOption.explicit_arg = None
    /\ action_is_nargs_variable(acts[NextOption.action])
    /\ match_argument(acts[NextOption.action], AfterNextOption) # -1

\* the number of strings after the option string that the iteration consumed
StringsConsumed == stack'[Len(stack')].start_index - (next_option_string_index(Top) + 1)

\* the most strings the option's own pattern matches
OwnMaximum == match_argument(acts[NextOption.action], AfterNextOption)

\* the strings the option gets when it is matched together with the
\* positionals that are pending when it is consumed
SharedCount ==
    PrefixCounts(<<NextOption.action>> \o stack'[Len(stack')].positionals, AfterNextOption)[1]

\* C13 (as amended): an occurrence of an option of variable nargs consumes
\* the smaller of its own maximum and its shared count when the number of
\* option strings after it is at most the sharing threshold of the pass, and
\* its own maximum otherwise.  The last occurrence has no option string after
\* it: its count is shared in every pass.
C13_SharedCountFromTheLast ==
    [][VariableOptionConsumed =>
          StringsConsumed = IF Count(AfterNextOption, "O") <= Top.ii
                            THEN Min(OwnMaximum, SharedCount)
                            ELSE OwnMaximum]_vars

\* the real pass has come to the last of two or more --foo and has given it
\* no string (or fewer than its pattern matches): the string after it is left
\* to a pending positional
C13_Witness ==
    /\ Running
    /\ Top.pc = "loop"
    /\ ~Top.no_action
    /\ Count(argv, tFoo) > 1
    /\ Top.pending # <<>>
    /\ Top.pending[Len(Top.pending)].k = "take"
    /\ Top.pending[Len(Top.pending)].option_string = tFoo
    /\ acts[Top.pending[Len(Top.pending)].action].nargs \in {ZERO_OR_MORE, ONE_OR_MORE}
    /\ Top.start_index < Len(argv)
    /\ Range(DropFirst(Top.arg_strings_pattern, Top.start_index)) = {"A"}

\* C13 as stated: with more than one occurrence of the option of variable
\* nargs on the command line, the last occurrence consumes its own maximum
\* and the others at most their shared count.
C13_AsStated ==
    [][(VariableOptionConsumed /\ ~Top.no_action /\ Count(argv, tFoo) > 1) =>
          StringsConsumed = IF tFoo \in Range(DropFirst(argv, next_option_string_index(Top) + 1))
                            THEN Min(OwnMaximum, SharedCount)
                            ELSE OwnMaximum]_vars

\* a test loop (dry-run pass) of the top frame is under way
InTestLoop == Running /\ Top.pc \in {"loop", "passend"} /\ Top.no_action

\* the frame is at the start of a pass with the threshold: a fresh positional
\* queue, no leftover string, the first string next
StartsPass(f, threshold) ==
    /\ f.pc = "loop"
    /\ f.ii = threshold
    /\ f.positionals = get_positional_actions(f.p)
    /\ f.extras = <<>>
    /\ f.start_index = 0
    /\ f.pending = <<>>

\* C14: the passes start with a test loop of threshold 0 when an option of
\* variable nargs is on the command line with another option string and the
\* parser has positionals, and with the real pass of threshold 0 otherwise.
\* A step of a test loop changes neither the namespace nor the seen actions
\* and queues no call of take_action.  A test loop that ends with no
\* positional pending, or with the last threshold (the number of option
\* strings less one), is followed by the real pass, with the same threshold,
\* a fresh positional queue and no leftover string; any other is followed by
\* the test loop of the next threshold.  The real pass is followed by the
\* required check: there is one real pass.
C14_TestLoopsThenOneRealPass ==
    [][/\ (Running /\ Top.pc = "plan") =>
             LET f == stack'[Len(stack')]
             IN  /\ StartsPass(f, 0)
                 /\ f.no_action =
                       (/\ \E i \in 1..Len(Top.option_string_indices) :
                              LET a == Top.option_string_indices[i][2].action
                              IN  a # 0 /\ action_is_nargs_variable(acts[a])
                        /\ get_positional_actions(Top.p) # <<>>
                        /\ Count(Top.arg_strings_pattern, "O") > 1)
       /\ InTestLoop =>
             /\ namespace' = namespace
             /\ stack' # <<>> =>
                   LET f == stack'[Len(stack')]
                   IN  /\ Len(stack') = Len(stack)
                       /\ f.seen_actions = Top.seen_actions
                       /\ f.seen_non_default_actions = Top.seen_non_default_actions
                       /\ \A i \in 1..Len(f.pending) : f.pending[i].k = "raise"
       /\ (InTestLoop /\ Top.pc = "passend" /\ Top.pending = <<>>) =>
             LET f == stack'[Len(stack')]
             IN  IF Top.positionals = <<>> \/ Top.ii = Top.penult - 1
                 THEN StartsPass(f, Top.ii) /\ ~f.no_action
                 ELSE StartsPass(f, Top.ii + 1) /\ f.no_action
       /\ (Running /\ Top.pc = "loop" /\ ~Top.no_action /\ stack' # <<>>) =>
             LET f == stack'[Len(stack')]
             IN  (Len(stack') = Len(stack) /\ f.pc = "loop") => (~f.no_action /\ f.ii = Top.ii)
       /\ (Running /\ Top.pc = "passend" /\ ~Top.no_action /\ Top.pending = <<>>) =>
             stack'[Len(stack')].pc = "required"]_vars

\* the real pass starts with threshold 1: the test loop of threshold 0 ended
\* with a positional pending, the one of threshold 1 with none, and neither
\* has changed the namespace or the seen actions
C14_Witness ==
    /\ Running
    /\ ~Top.no_action
    /\ StartsPass(Top, 1)
    /\ Top.cnt = 2
    /\ Top.penult > 2
    /\ Top.seen_actions = {}
    /\ Top.seen_non_default_actions = <<>>

(***************************************************************************)
(* Properties of the strings after '--' and of the conversion and the      *)
(* check of values and defaults (SpecValues).                              *)
(***************************************************************************)
\* the place in the command line of the string of index i (from 0) of the
\* frame: a sub-command parser is given the last strings of the command line
PlaceInArgv(f, i) == Len(argv) - Len(f.arg_strings) + i + 1

\* C15: no string after the first '--' of the command line is classified as
\* an option string, by the parser or by a sub-command parser it hands the
\* string to, and none is reported as an ambiguous option.
C15_AfterSeparatorPlainValues ==
    FirstSeparator(argv) # 0 =>
        /\ \A k \in 1..Len(stack) :
              stack[k].arg_strings = DropFirst(argv, Len(argv) - Len(stack[k].arg_strings)) =>
                  \A i \in 1..Len(stack[k].option_string_indices) :
                      PlaceInArgv(stack[k], stack[k].option_string_indices[i][1])
                          < FirstSeparator(argv)
        /\ FailedWith("ambiguous option") =>
              \E i \in 1..(FirstSeparator(argv) - 1) : argv[i] = result.err.detail[1]

\* the values of a value of the namespace: those of a list, the value itself,
\* none for None
Elements(value) ==
    IF value[1] = "list" THEN Range(value[2]) ELSE IF value = VNone THEN {} ELSE {value}

\* what the type of the action makes of each of the strings
Converted(a, args) ==
    [i \in 1..Len(args) |-> IF acts[a].type = "int" THEN VInt(int(args[i])) ELSE VStr(args[i])]

\* the strings are all converted by the type of the action
AllConvert(a, args) ==
    \A i \in 1..Len(args) : acts[a].type = "int" => IsIntLiteral(args[i])

\* the next step is take_action with strings of the command line for an
\* action that has choices
TakesChosen ==
    /\ Running
    /\ Top.pending # <<>>
    /\ Head(Top.pending).k = "take"
    /\ Head(Top.pending).args # <<>>
    /\ acts[Head(Top.pending).action].choices # None

\* the converted strings of that call that are not among the choices
Violating ==
    SelectSeq(Converted(Head(Top.pending).action, Head(Top.pending).args),
              LAMBDA v : v \notin acts[Head(Top.pending).action].choices[1])

\* C16 (as amended): for an action with choices whose nargs is neither
\* REMAINDER nor PARSER, take_action with strings that are all converted
\* fails when some converted value is not among the choices, with one error
\* of that action that lists every such value, in order, and otherwise goes
\* on; and after a successful parse every value the namespace holds for such
\* an action is among its choices.
C16_ChoicesCheckedButForRemainder ==
    [][/\ (/\ TakesChosen
           /\ acts[Head(Top.pending).action].nargs \notin {REMAINDER, PARSER}
           /\ AllConvert(Head(Top.pending).action, Head(Top.pending).args)) =>
             IF Violating # <<>>
             THEN result' = Result("error",
                                   Err("invalid choice", Head(Top.pending).action, Violating),
                                   Top.p, <<>>)
             ELSE result'.status = "running"
       /\ result'.status = "ok" =>
             \A a \in 1..Len(acts) :
                 (/\ acts[a].choices # None
                  /\ acts[a].nargs \notin {REMAINDER, PARSER}
                  /\ DictHas(namespace', acts[a].dest)) =>
                     Elements(DictGet(namespace', acts[a].dest)) \subseteq acts[a].choices[1]]_vars

\* a parse has failed with one invalid choice error that lists two values
C16_Witness ==
    /\ FailedWith("invalid choice")
    /\ Len(result.err.detail) = 2
    /\ acts[result.err.action].choices # None
    /\ acts[result.err.action].nargs \notin {REMAINDER, PARSER}

\* C16 as stated: after a successful parse every value the namespace holds
\* for an action with choices, of any nargs, is among its choices.
C16_AsStated ==
    Succeeded =>
        \A a \in 1..Len(acts) :
            (acts[a].choices # None /\ DictHas(namespace, acts[a].dest)) =>
                Elements(DictGet(namespace, acts[a].dest)) \subseteq acts[a].choices[1]

\* the parser of DefaultsConfig: p (nargs '?'), q and --foo, all of type int
DefaultsParser ==
    /\ Len(acts) = 3
    /\ acts[1].dest = tP /\ acts[1].nargs = OPTIONAL /\ acts[1].type = "int"
    /\ acts[3].option_strings = <<tFoo>>

\* argv[i] is the string after a --foo: the value of that --foo
IsFooValue(i) == i > 1 /\ argv[i - 1] = tFoo /\ argv[i] # tFoo

\* argv[i] is the first string that is neither --foo nor the value of one:
\* it is given to p or to q
IsFirstPositionalString(i) ==
    /\ argv[i] # tFoo
    /\ ~IsFooValue(i)
    /\ \A j \in 1..(i - 1) : argv[j] = tFoo \/ IsFooValue(j)

\* a string of the command line that is given to an action of type int is
\* no integer
SuppliedInvalid ==
    \E i \in 1..Len(argv) :
        /\ ~IsIntLiteral(argv[i])
        /\ IsFooValue(i) \/ IsFirstPositionalString(i)

\* C17: the parse does not fail with the conversion of a default (the
\* string 'y', which no command line holds) when the command line supplies
\* an action with a value that its type does not convert.
C17_DefaultsConvertedLast ==
    (DefaultsParser /\ FailedWith("invalid value") /\ result.err.detail = <<tY>>) =>
        ~SuppliedInvalid

(***************************************************************************)
(* The tests registered with a parser and the tests a parse runs.          *)
(***************************************************************************)
IsPrefix(s, t) == Len(s) <= Len(t) /\ SubSeq(t, 1, Len(s)) = s

\* the objects given to register, in the order of the calls
RegisteredTests(p) == [i \in 1..Len(parsers[p].registered) |-> parsers[p].registered[i][2]]

\* the frame has run the last of the tests of its parser
TestsDone(f) ==
    \/ f.pc = "cross_tests" /\ f.test_index > Len(get_cross_tests(f.p))
    \/ f.pc = "parse_args"

\* two registrations of the parser p were made under one name
NameUsedTwice(p) ==
    \E i, j \in 1..Len(parsers[p].registered) :
        i < j /\ parsers[p].registered[i][1] = parsers[p].registered[j][1]

\* C18: at every moment of a parse the tests run so far are the first of the
\* tests registered, in the order of the registrations, none before the
\* required-argument check is over; a parse that ran the last of its tests
\* ran every test registered, once each
C18_TestsRunAsRegistered ==
    \A i \in 1..Len(stack) :
        /\ IsPrefix(stack[i].tests_run, RegisteredTests(stack[i].p))
        /\ stack[i].pc \notin {"cross_tests", "parse_args"} => stack[i].tests_run = <<>>
        /\ TestsDone(stack[i]) => stack[i].tests_run = RegisteredTests(stack[i].p)

\* the same of the parsers that have no name registered twice
TestsRunAsRegisteredUnderDistinctNames ==
    \A i \in 1..Len(stack) :
        ~NameUsedTwice(stack[i].p) =>
            /\ IsPrefix(stack[i].tests_run, RegisteredTests(stack[i].p))
            /\ stack[i].pc \notin {"cross_tests", "parse_args"} => stack[i].tests_run = <<>>
            /\ TestsDone(stack[i]) => stack[i].tests_run = RegisteredTests(stack[i].p)

(***************************************************************************)
(* The count of a group.                                                   *)
(***************************************************************************)
\* the group g is a usage group of the kind 'not'
IsNegated(g) == groups[g].usage /\ groups[g].kind = "not"

\* the members of the group g that count as seen, S being the set of the
\* actions seen: an action that is in S, a nested group that is satisfied
RECURSIVE SeenChildren(_, _)

\* a nested group that raises no error is satisfied when it has a member that
\* counts as seen, the negation of a group when it has none, and a group of a
\* kind that has no test never
Satisfied(g, S) ==
    CASE IsNegated(g) -> SeenChildren(g, S) = {}
      [] groups[g].kind \in GroupKinds -> SeenChildren(g, S) # {}
      [] OTHER -> FALSE

SeenChildren(g, S) ==
    {m \in Range(groups[g].group_actions) :
        IF IsAction(m) THEN m[2] \in S ELSE Satisfied(m[2], S)}

\* the sequences of at most n + 1 actions, n being the number of the actions
\* in s, that hold the same actions as s
Rearranged(s) ==
    {t \in SeqsUpTo(Range(s), Cardinality(Range(s)) + 1) : Range(t) = Range(s)}

\* the tests of the parser of the top frame are being run
InCrossTests == Running /\ Top.pc = "cross_tests"

\* C19: when the tests of a parser are run, the count of each of its groups
\* whose nested groups raise no error is the number of its own actions that
\* were seen plus the number of its nested groups that are satisfied, one for
\* each however many of its members were seen, and it is the same for every
\* sequence that holds the same seen actions in another order or number
C19_CountOfSeenChildren ==
    InCrossTests =>
        \A g \in 1..Len(groups) :
            count_actions(g, Top.seen_non_default_actions).err = None =>
                \A t \in Rearranged(Top.seen_non_default_actions) :
                    count_actions(g, t) =
                        [err |-> None,
                         cnt |-> Cardinality(SeenChildren(
                                     g, Range(Top.seen_non_default_actions)))]

\* the test of the group 1 has passed on -a and, more than once, -b and -c, the
\* two actions of its nested group 2: the count of the group 1 is 2
C19_Witness ==
    /\ InCrossTests
    /\ Top.tests_run = <<GroupTest(1)>>
    /\ Len(groups) = 2
    /\ groups[1].group_actions = <<<<"G", 2>>, <<"A", 1>>>>
    /\ groups[2].group_actions = <<<<"A", 2>>, <<"A", 3>>>>
    /\ Range(Top.seen_non_default_actions) = {1, 2, 3}
    /\ Len(Top.seen_non_default_actions) > 3
    /\ count_actions(1, Top.seen_non_default_actions).cnt = 2

(***************************************************************************)
(* The usage group of the kind 'not'.                                      *)
(***************************************************************************)
\* the single child of a usage group of the kind 'not', a nested group
ChildOf(g) == groups[g].group_actions[1][2]

\* the usage group g has raised its error
RejectedBy(g) == FailedWith("not allowed") /\ result.err.detail = <<g>>

\* the parser has, as its one test, the negation of the inclusive group of the
\* flags -a and -b
NegatesInclusive ==
    /\ Len(groups) = 2
    /\ IsNegated(1)
    /\ ~groups[1].has_fn
    /\ groups[1].group_actions = <<<<"G", 2>>>>
    /\ groups[2].kind = "inc"
    /\ groups[2].group_actions = <<<<"A", 1>>, <<"A", 2>>>>

ConflictRaised(call) ==
    call.err # None /\ call.err[1].kind = "conflicting option string"

\* the option strings of the actions there were are as they were
OptionStringsKept ==
    \A a \in 1..Len(acts) : acts'[a].option_strings = acts[a].option_strings

\* C21: an add_argument of a parser with the error policy that names an option
\* string of the index of the parser raises, and leaves every parser, every
\* group and every action there was as it was; and when the add of an
\* inherited action to a new parser with the error policy raises, the parsers
\* there were and the option strings of the actions are as they were
C21_ErrorPolicyFailedAddChangesNothing ==
    [][/\ last'.op = "add_argument"
          /\ parsers[last'.self].conflict_handler = "error"
          /\ last'.conflicts # <<>>
          => /\ ConflictRaised(last')
             /\ parsers' = parsers
             /\ groups' = groups
             /\ SubSeq(acts', 1, Len(acts)) = acts
       /\ last'.op = "ArgumentParser" /\ ConflictRaised(last')
          => /\ SubSeq(parsers', 1, Len(parsers)) = parsers
             /\ OptionStringsKept]_vars

\* an add_argument has raised under the error policy, for an option string
\* that another action of the parser has
C21_Witness ==
    /\ last.op = "add_argument"
    /\ ConflictRaised(last)
    /\ parsers[last.self].conflict_handler = "error"
    /\ last.conflicts # <<>>
    /\ parsers[last.self].actions # <<>>

(***************************************************************************)
(* The owners src/sample3.py records on an action that was inherited.      *)
(***************************************************************************)
\* every parser has the policy 'parent' of src/sample3.py
AllParentPolicy ==
    sample3 /\ \A p \in 1..Len(parsers) : parsers[p].conflict_handler = "parent"

\* action.containers, for an action that has the attribute
Edges(a) == acts[a].containers[1]

\* the parsers of the edges of the action a
EdgeParsers(a) == [i \in 1..Len(Edges(a)) |-> Edges(a)[i][1]]

\* the group of the parser p that lists the action a
HoldingGroups(p, a) ==
    {Container(p, title) : title \in {t \in {"optionals", "positionals"} :
                                          a \in Range(GroupActions(Config, Container(p, t)))}}

\* the edges of the action a are the parsers that list it, each with the
\* group of the parser that lists it
EdgesAreHolders(a) ==
    /\ \A p \in 1..Len(parsers) : Count(EdgeParsers(a), p) = Count(parsers[p].actions, a)
    /\ \A i \in 1..Len(Edges(a)) : Edges(a)[i][2] \in HoldingGroups(Edges(a)[i][1], a)

\* the edges of the action a before a call: those recorded, or, of an action
\* the call is the first to share, the edge of the parser that made it
EdgesBefore(a) ==
    IF acts[a].containers # None THEN Edges(a)
    ELSE <<<<acts[a].container[1].p, acts[a].container[1]>>>>

\* the call changes the edges of no parser but self
OtherEdgesKept(a, self) ==
    acts'[a].containers # None =>
        SelectSeq(acts'[a].containers[1], LAMBDA e : e[1] # self)
            = SelectSeq(EdgesBefore(a), LAMBDA e : e[1] # self)

\* C22: with src/sample3.py imported and the policy 'parent' on every parser,
\* the edges recorded on an action are the parsers that list the action, each
\* once and with the group that lists it, and a call on a parser, the making
\* of it from its parents or an add_argument, leaves the edges of the other
\* parsers as they were, in their order
C22_EdgesAreTheHolders ==
    /\ [](AllParentPolicy =>
              \A a \in 1..Len(acts) : acts[a].containers # None => EdgesAreHolders(a))
    /\ [][AllParentPolicy' =>
              \A a \in 1..Len(acts) : OtherEdgesKept(a, last'.self)]_vars

\* an add_argument of a parser has removed, for its option string, an action
\* the parser had inherited: other parsers hold the action still
C22_Witness ==
    /\ AllParentPolicy
    /\ last.op = "add_argument"
    /\ last.conflicts # <<>>
    /\ acts[last.conflicts[1][2]].containers # None
    /\ Len(Edges(last.conflicts[1][2])) >= 2
    /\ last.conflicts[1][2] \notin Range(parsers[last.self].actions)
    /\ acts[last.conflicts[1][2]].container[1].p # last.self

(***************************************************************************)
(* The namespace of the caller after a parse (specification SpecSeeded).   *)
(***************************************************************************)
\* the namespace the caller passed to the call
PassedNamespace == SeededNamespaces[DictGet(namespace, tSeed)[2]]

\* C23: after a parse that failed, the namespace the caller passed to the call
\* holds the entries it held before the call, and no other
C23_FailedParseLeavesNamespace ==
    Failed => DictHas(namespace, tSeed) /\ namespace = PassedNamespace

(***************************************************************************)
(* The configuration during a parse (specification Spec).                  *)
(***************************************************************************)
\* C24: no step of a parse, of one that returns and of one that fails,
\* changes an action, a parser or a group: the lists of actions and the
\* indices of the option strings of the parsers, and the option strings, the
\* nargs, the default and the required flag of the actions are, after the
\* call, what they were before
C24_ParseLeavesConfiguration ==
    [][result.status = "running" =>
          /\ acts' = acts
          /\ parsers' = parsers
          /\ groups' = groups]_vars

\* a parse has returned after it called actions, among them a store action
\* that was given its strings
C24_Witness ==
    /\ Succeeded
    /\ \E a \in 1..Len(acts) :
           /\ acts[a].kind = "store"
           /\ DictHas(namespace, acts[a].dest)
           /\ DictGet(namespace, acts[a].dest) \notin {VNone, acts[a].default}

(***************************************************************************)
(* The end of a parse (specification SpecRun).                             *)
(***************************************************************************)
\* the frame of the loop after the step
TopAfter == stack'[Len(stack')]

\* the step has queued an exception
RaiseQueued == \E i \in 1..Len(TopAfter.pending) : TopAfter.pending[i].k = "raise"

\* the action tuples of options the step has queued
OptionTuples ==
    SelectSeq(TopAfter.pending, LAMBDA it : it.k = "take" /\ it.option_string # None)

\* the passes of consume_loop a frame has made are no more than the option
\* strings of its command line and one
PassesBounded(f) == f.cnt <= Count(f.arg_strings_pattern, "O") + 1

\* C25: a parse ends; an iteration of the loop of consume_loop moves the
\* position to the right, unless it raises; the flags it takes from one
\* string are fewer than the characters of the string, each flag of a
\* cluster taking one character from it; and the passes of a parser, test
\* loops and the real loop, are no more than the option strings and one
C25_ParseTerminates ==
    /\ <>Finished
    /\ [](\A i \in 1..Len(stack) : PassesBounded(stack[i]))
    /\ [][LoopIterates =>
              /\ TopAfter.start_index > Top.start_index \/ RaiseQueued
              /\ Len(OptionTuples)
                     < Len(Top.arg_strings[next_option_string_index(Top) + 1])]_vars

\* the real loop has ended after as many test loops as there are option
\* strings on the command line, two at least
C25_Witness ==
    /\ Running
    /\ Top.pc = "required"
    /\ Top.penult >= 2
    /\ Top.cnt = Top.penult + 1

(***************************************************************************)
(* Every string of the command line has one place (Spec).                  *)
(***************************************************************************)
\* an iteration of the real loop of consume_loop, or its last lines
InRealLoop == Running /\ Top.pc = "loop" /\ Top.pending = <<>> /\ ~Top.no_action

\* the strings the step has gone over: up to the new position, and to the
\* end of the command line after the last option string
Scanned ==
    IF Top.start_index <= max_option_string_index(Top)
    THEN Slice(Top.arg_strings, Top.start_index, TopAfter.start_index)
    ELSE DropFirst(Top.arg_strings, Top.start_index)

\* the strings given to the actions the step has queued
Passed ==
    LET taken == SelectSeq(TopAfter.pending, LAMBDA it : it.k = "take")
    IN  Concat([i \in 1..Len(taken) |-> taken[i].args])

\* the strings the step has put with the extras
NewExtras == DropFirst(TopAfter.extras, Len(Top.extras))

\* the strings the step has given a place, in the order of their places: an
\* option string belongs to the option it names, and its explicit argument
\* is a part of it
Claimed ==
    IF OptionTuples # <<>>
    THEN NewExtras \o <<Top.arg_strings[next_option_string_index(Top) + 1]>>
         \o (IF NextOption.explicit_arg # None THEN <<>> ELSE Passed)
    ELSE Passed \o NewExtras

RemoveAt(s, i) == SubSeq(s, 1, i - 1) \o SubSeq(s, i + 1, Len(s))

\* the strings gone over are the strings given a place, but for the
\* separator, which may be dropped
EachStringOnce ==
    \/ Claimed = Scanned
    \/ \E i \in 1..Len(Scanned) :
          /\ Top.start_index + i = FirstSeparator(Top.arg_strings)
          /\ RemoveAt(Scanned, i) = Claimed

\* str.endswith, of lists
EndsWith(s, t) == Len(t) <= Len(s) /\ SubSeq(s, Len(s) - Len(t) + 1, Len(s)) = t

\* the parse has returned the separator, and with it the strings after it,
\* among the extras
SeparatorLeftOver ==
    /\ Succeeded
    /\ FirstSeparator(argv) # 0
    /\ EndsWith(result.extras, DropFirst(argv, FirstSeparator(argv) - 1))

\* C26: in a parse that returns, every string of the command line of a
\* parser has one place: it is given to one action, or it is the separator
\* '--', or it is with the extras; the strings an iteration of the loop goes
\* over are, in their order, the strings it gives to actions and the strings
\* it adds to the extras, the separator aside; and the separator is never
\* among the extras.
C26_EveryStringAccountedOnce ==
    /\ [][(InRealLoop /\ ~RaiseQueued) => EachStringOnce]_vars
    /\ [](~SeparatorLeftOver)

(***************************************************************************)
(* The index of option strings and the list of actions of a parser, under  *)
(* the policy 'parent' of src/sample3.py (SpecConf).                       *)
(***************************************************************************)
\* every string of _option_string_actions leads to an action of _actions
\* that has the string
IndexedAreListed(p) ==
    \A i \in 1..Len(parsers[p].option_string_actions) :
        LET option_string == parsers[p].option_string_actions[i][1]
            a == parsers[p].option_string_actions[i][2]
        IN  /\ a \in Range(parsers[p].actions)
            /\ option_string \in Range(acts[a].option_strings)

\* every option string of an action of _actions leads to the action
ListedAreIndexed(p) ==
    \A a \in Range(parsers[p].actions) :
        \A option_string \in Range(acts[a].option_strings) :
            /\ DictHas(parsers[p].option_string_actions, option_string)
            /\ DictGet(parsers[p].option_string_actions, option_string) = a

\* C27: with src/sample3.py imported and the policy 'parent' on every parser,
\* after every making of a parser from its parents and every add_argument,
\* the index of option strings of each parser agrees with its list of
\* actions: an indexed string leads to an action of the list that has the
\* string, and every option string of every action of the list is indexed
\* to that action
C27_IndexAgreesWithActions ==
    AllParentPolicy =>
        \A p \in 1..Len(parsers) : IndexedAreListed(p) /\ ListedAreIndexed(p)

\* an add_argument has taken from a parser an action of two option strings
\* that the parser had inherited, for one of the strings; the parent has the
\* action still, with both strings
C27_Witness ==
    /\ AllParentPolicy
    /\ last.op = "add_argument"
    /\ last.conflicts # <<>>
    /\ Len(acts[last.conflicts[1][2]].option_strings) = 2
    /\ last.conflicts[1][2] \notin Range(parsers[last.self].actions)
    /\ \E p \in 1..Len(parsers) : last.conflicts[1][2] \in Range(parsers[p].actions)

(***************************************************************************)
(* The count of an option that shares with the positionals (SpecLeast).    *)
(***************************************************************************)
\* the iteration has taken the next option string, of an option the parser
\* knows, without explicit argument, together with the strings after it
OptionTaken ==
    /\ LoopIterates
    /\ ~RaiseQueued
    /\ TopAfter.start_index > next_option_string_index(Top)
    /\ NextOption.action # 0
    /\ NextOption.explicit_arg = None

\* the nargs allows the number of strings
ArityAllows(nargs, n) == nargs.m <= n /\ n <= nargs.n

\* C28: the count shared with the positionals keeps the arity of the option:
\* every occurrence of an option consumes no more strings than its own
\* pattern matches, and a number its nargs allows: one at least for '+', m
\* at least for '{m,n}'
C28_SharedCountKeepsArity ==
    [][OptionTaken =>
          /\ StringsConsumed <= OwnMaximum
          /\ ArityAllows(acts[NextOption.action].nargs, StringsConsumed)]_vars

\* in the real loop an option of nargs '+' or '{m,n}' has been given fewer
\* strings than stand after it: the least its nargs allows, the next string
\* being left to a positional
C28_Witness ==
    /\ Running
    /\ Top.pc = "loop"
    /\ ~Top.no_action
    /\ Top.pending # <<>>
    /\ Top.pending[1].k = "take"
    /\ Top.pending[1].option_string # None
    /\ acts[Top.pending[1].action].nargs.m >= 1
    /\ acts[Top.pending[1].action].nargs.n >= 2
    /\ Len(Top.pending[1].args) = acts[Top.pending[1].action].nargs.m
    /\ Top.start_index < Len(Top.arg_strings)
    /\ Top.arg_strings_pattern[Top.start_index + 1] = "A"

(***************************************************************************)
(* The values of a positional of nargs '{m,n}' (SpecLeast).                *)
(***************************************************************************)
\* the positionals of the top-level parser with a nargs '{m,n}'
RangePositionals ==
    {a \in Range(parsers[1].actions) :
        acts[a].option_strings = <<>> /\ is_mnrep(acts[a].nargs)}

\* the number of values the parse has stored for the action
ValuesStored(a) ==
    IF Stored(acts[a].dest)[1] = "list" THEN Len(Stored(acts[a].dest)[2]) ELSE 0

\* C29: after a parse that returns, the values stored for a positional of
\* nargs '{m,n}' are m at least and n at most, the separator '--' not being
\* one of them, wherever the separator stands on the command line
C29_RangePositionalWithSeparator ==
    Succeeded =>
        \A a \in RangePositionals : ArityAllows(acts[a].nargs, ValuesStored(a))

(***************************************************************************)
(* The groups of a parser made from a parent (SpecInherit).                *)
(***************************************************************************)
\* the groups on the parent, and the groups made for them in the parser that
\* has it as its parent, in the order they were made
ParentGroups == parsers[1].mutually_exclusive_groups
InheritedGroups == parsers[2].mutually_exclusive_groups

\* the two groups are of the same kind, required alike, with the same actions
SameGroup(g, h) ==
    /\ groups[g].kind = groups[h].kind
    /\ groups[g].required = groups[h].required
    /\ groups[g].group_actions = groups[h].group_actions

\* the test of the group accepts the seen actions
Accepts(g, seen_non_default_actions) == group_fn(g, seen_non_default_actions).err = None

\* C30: a parser made from a parent has, for every group on the parent, a
\* group of the same kind (exclusive, inclusive or any), required alike and
\* with the same actions, and when its tests are run the group accepts the
\* seen actions exactly when the group of the parent accepts them
C30_InheritedGroupAsInParent ==
    /\ Len(InheritedGroups) = Len(ParentGroups)
    /\ \A i \in 1..Len(ParentGroups) : SameGroup(ParentGroups[i], InheritedGroups[i])
    /\ (InCrossTests /\ Top.p = 2) =>
          \A i \in 1..Len(ParentGroups) :
              Accepts(InheritedGroups[i], Top.seen_non_default_actions)
                  <=> Accepts(ParentGroups[i], Top.seen_non_default_actions)
====
